---- MODULE Spec2Model ----
(***************************************************************************)
(* Model of the local LLM proxy of agent2sandbox/llm_proxy.py: the         *)
(* TrajectoryStore (event, query and answer files), the session registry,  *)
(* route selection and the four request paths of ProxyRuntime, run by      *)
(* concurrent handler threads of the ThreadingHTTPServer.                  *)
(*                                                                         *)
(* Strings the code inspects character by character (tokens, event types,  *)
(* model names) are sequences of one-character strings.  Request bodies    *)
(* are well typed: model is absent or a JSON string.                     *)
(***************************************************************************)
EXTENDS Integers, Sequences, FiniteSets, TLC

VARIABLES
    routes,          \* ProxyRuntime.routing.routes, fixed at construction
    now,             \* the wall clock, in ticks (one tick = one microsecond reading)
    sessions,        \* ProxyRuntime._sessions: token -> ProxySession
    files,           \* the files under log_dir: path -> [complete, writes]
    suffix_counter,  \* TrajectoryStore._suffix_counter: <<dir, base>> -> count
    storeLock,       \* TrajectoryStore._lock: the handler holding it, or NoProc
    evlog,           \* per session directory, the event writes in the order the lock admitted them
    h,               \* the handler threads
    runtimeLock,     \* ProxyRuntime._lock: the handler holding it, or NoProc
    reasoning_by_token, \* ProxyRuntime._reasoning_by_token: token -> cache
    server           \* LLMProxyServer: "serving", "shut_down", "closed" or "stopped"

vars == <<routes, now, sessions, files, suffix_counter, storeLock, evlog, h,
          runtimeLock, reasoning_by_token, server>>

----------------------------------------------------------------------------
(* Bounds *)

NumHandlers == 2
MaxClock == 1
TicksPerSecond == 1
MaxRoutes == 3

Procs == 1..NumHandlers
NoProc == 0

----------------------------------------------------------------------------
(* Strings *)

Lower == {"a","b","c","d","e","f","g","h","i","j","k","l","m","n","o","p","q","r","s","t","u","v","w","x","y","z"}
Digit == {"0","1","2","3","4","5","6","7","8","9"}
Alnum == Lower \cup Digit
Space == {" "}

SafeTokenLen == 64

Anonymous == <<"a","n","o","n","y","m","o","u","s">>

Min2(a, b) == IF a < b THEN a ELSE b

IsSafeChar(ch) == ch \in Alnum \/ ch \in {"-", "_"}

\* _safe_file_token: keep alphanumerics, "-" and "_", cut to 64, empty -> "anonymous"
safe_file_token(token) ==
    LET kept == SelectSeq(token, IsSafeChar)
        cut  == SubSeq(kept, 1, Min2(Len(kept), SafeTokenLen))
    IN  IF cut = <<>> THEN Anonymous ELSE cut

RECURSIVE lstrip(_)
lstrip(s) == IF s # <<>> /\ Head(s) \in Space THEN lstrip(Tail(s)) ELSE s

RECURSIVE rstrip(_)
rstrip(s) == IF s # <<>> /\ s[Len(s)] \in Space THEN rstrip(SubSeq(s, 1, Len(s) - 1)) ELSE s

\* str.strip()
strip(s) == rstrip(lstrip(s))

----------------------------------------------------------------------------
(* Event types the Runtime records *)

EvSessionRegistered == <<"s","e","s","s","i","o","n","_","r","e","g","i","s","t","e","r","e","d">>
EvAnthropicRequest == <<"a","n","t","h","r","o","p","i","c","_","r","e","q","u","e","s","t">>
EvRouteSelected == <<"r","o","u","t","e","_","s","e","l","e","c","t","e","d">>
EvRouteNotFound == <<"r","o","u","t","e","_","n","o","t","_","f","o","u","n","d">>
EvUpstreamError == <<"u","p","s","t","r","e","a","m","_","e","r","r","o","r">>
EvAnthropicPassthrough == <<"a","n","t","h","r","o","p","i","c","_","p","a","s","s","t","h","r","o","u","g","h">>
EvAnthropicConverted == <<"a","n","t","h","r","o","p","i","c","_","c","o","n","v","e","r","t","e","d","_","r","e","s","p","o","n","s","e">>

----------------------------------------------------------------------------
(* Route table *)

NoRoute == [name |-> <<>>, request_model |-> <<>>, upstream_provider |-> "none", upstream_model |-> <<>>, upstream_api_key |-> <<>>]

RouteA == [name |-> <<"a">>, request_model |-> <<"a">>, upstream_provider |-> "openai", upstream_model |-> <<"u">>, upstream_api_key |-> <<"K">>]
RouteB == [name |-> <<"b">>, request_model |-> <<"b">>, upstream_provider |-> "anthropic", upstream_model |-> <<"v">>, upstream_api_key |-> <<"L">>]
RouteAlias == [name |-> <<"c">>, request_model |-> <<"b">>, upstream_provider |-> "openai", upstream_model |-> <<"u">>, upstream_api_key |-> <<"K">>]
RouteB2 == [name |-> <<"b">>, request_model |-> <<"a">>, upstream_provider |-> "anthropic", upstream_model |-> <<"v">>, upstream_api_key |-> <<"L">>]
RouteStar == [name |-> <<"*">>, request_model |-> <<"*">>, upstream_provider |-> "anthropic", upstream_model |-> <<"w">>, upstream_api_key |-> <<"L">>]

RouteStarAlias == [name |-> <<"d">>, request_model |-> <<"*">>, upstream_provider |-> "openai", upstream_model |-> <<"u">>, upstream_api_key |-> <<"K">>]

\* the table of the Runtime under Spec
RouteTable == <<RouteA, RouteB>>

Wildcard == <<"*">>
IsWildcard(route) == route.name = Wildcard \/ route.request_model = Wildcard

\* the tables of SpecRoute: up to MaxRoutes routes, no name twice, at most one wildcard route
RoutePool == {RouteA, RouteB, RouteAlias, RouteB2, RouteStar, RouteStarAlias}
RouteTables ==
    { table \in UNION { [1..n -> RoutePool] : n \in 0..MaxRoutes } :
        \A i, j \in DOMAIN table :
            i # j => /\ table[i].name # table[j].name
                     /\ ~(IsWildcard(table[i]) /\ IsWildcard(table[j])) }

SetMin(S) == CHOOSE x \in S : \A y \in S : x <= y

NameHits(table, m) == {i \in DOMAIN table : table[i].name = m}
RequestModelHits(table, m) == {i \in DOMAIN table : table[i].request_model = m}
WildcardHits(table) == {i \in DOMAIN table : IsWildcard(table[i])}

\* LLMProxyRoutingConfig.match(requested_model): name, then request model, then wildcard
match(table, m) ==
    IF NameHits(table, m) # {} THEN table[SetMin(NameHits(table, m))]
    ELSE IF RequestModelHits(table, m) # {} THEN table[SetMin(RequestModelHits(table, m))]
    ELSE IF WildcardHits(table) # {} THEN table[SetMin(WildcardHits(table))]
    ELSE NoRoute

----------------------------------------------------------------------------
(* Requests, upstream results, responses *)

NoneVal == "None"

Tokens == { <<"s">> }
ChatModels == { <<>>, <<" ">>, <<"a"," ">>, <<"b">>, <<"z">> }
ClientEventTypes == { <<"e">>, <<"e",".">> }

\* process_openai_chat_completions never reads stream
ChatRequests ==
    [kind : {"anthropic"}, token : Tokens, model : ChatModels, stream : BOOLEAN,
     event_type : {<<>>}, sandbox_id : {NoneVal}, task_name : {NoneVal}]
    \cup
    [kind : {"openai"}, token : Tokens, model : ChatModels, stream : {FALSE},
     event_type : {<<>>}, sandbox_id : {NoneVal}, task_name : {NoneVal}]
RegisterRequests ==
    [kind : {"register"}, token : {<<"s">>, <<" ">>}, model : {<<>>}, stream : {FALSE},
     event_type : {<<>>}, sandbox_id : {NoneVal, "", "sb1"}, task_name : {NoneVal, "t1"}]
EventRequests ==
    [kind : {"event"}, token : {<<"s">>, <<"t">>}, model : {<<>>}, stream : {FALSE},
     event_type : ClientEventTypes \cup {<<>>}, sandbox_id : {NoneVal}, task_name : {NoneVal}]

Requests == ChatRequests \cup RegisterRequests \cup EventRequests

\* the requests of the handlers that run beside handler 1
SideRequests ==
    { [kind |-> "anthropic", token |-> <<"s","/">>, model |-> <<"a"," ">>, stream |-> FALSE,
       event_type |-> <<>>, sandbox_id |-> NoneVal, task_name |-> NoneVal],
      [kind |-> "event", token |-> <<"s">>, model |-> <<>>, stream |-> FALSE,
       event_type |-> <<"e">>, sandbox_id |-> NoneVal, task_name |-> NoneVal],
      [kind |-> "register", token |-> <<"s">>, model |-> <<>>, stream |-> FALSE,
       event_type |-> <<>>, sandbox_id |-> "sb2", task_name |-> NoneVal] }

RequestsOf(p) == IF p = 1 THEN Requests ELSE SideRequests
NoReq == [kind |-> "none", token |-> <<>>, model |-> <<>>, stream |-> FALSE,
          event_type |-> <<>>, sandbox_id |-> NoneVal, task_name |-> NoneVal]

\* UpstreamHTTPResult as _post_json returns it; body is what _parse_json_body can tell apart
NoUp == [status_code |-> 0, content_type |-> "none", body |-> "none"]
UpstreamResponses ==
    { [status_code |-> 200, content_type |-> "application/json", body |-> "completion"],
      [status_code |-> 200, content_type |-> "text/event-stream", body |-> "sse"],
      [status_code |-> 200, content_type |-> "text/html", body |-> "text"] }
UpstreamHTTPErrors ==
    { [status_code |-> 429, content_type |-> "application/json", body |-> "error_object"],
      [status_code |-> 500, content_type |-> "text/html", body |-> "text"] }
NetworkErrorResult == [status_code |-> 502, content_type |-> "application/json", body |-> "network_error_object"]

\* _parse_json_body: a dict, or None
IsJsonObject(body) == body \in {"completion", "error_object", "network_error_object"}

\* a ProxyResponse; payload is the type of its payload, "dict" or "str"
NoResp == [status_code |-> 0, error_type |-> "none", mode |-> "none", model |-> <<>>, payload |-> "none"]
ErrorResponse(status, etype) ==
    [status_code |-> status, error_type |-> etype, mode |-> "json", model |-> <<>>, payload |-> "dict"]
ControlResponse(status) ==
    [status_code |-> status, error_type |-> "none", mode |-> "json", model |-> <<>>, payload |-> "dict"]

\* _parse_json_body: the type of what it returns, a dict or None
parse_json_body(up) == IF IsJsonObject(up.body) THEN "dict" ELSE NoneVal

----------------------------------------------------------------------------
(* The steps of a handler.  A handler runs a list of operations; each       *)
(* operation is one call of the source and takes one or more atomic steps.  *)

Op(name) == [op |-> name, ev |-> <<>>, resp |-> NoResp]
StoreAppend(event_type) == [op |-> "append", ev |-> event_type, resp |-> NoResp]
Respond(resp) == [op |-> "respond", ev |-> <<>>, resp |-> resp]

\* ProxyRuntime.record_event: touch the session, then store.append
record_event(event_type) == << Op("touch"), StoreAppend(event_type) >>

\* ProxyRuntime.register_session: create or update the session, then store.append
register_session == << Op("regupd"), StoreAppend(EvSessionRegistered) >>

\* a runtime that calls the upstream without logging the query
log_upstream_query_skipped == <<>>

\* ProxyRuntime._log_upstream_query / _log_upstream_answer
log_upstream_query == << Op("query") >>
log_upstream_answer == << Op("answer") >>

(* Reasoning cache: a token's cache is a dict, kept as its keys in insertion  *)
(* order and its values.  Tool-call ids and reasoning texts are sequences of       *)
(* characters.                                                              *)

CacheLimit == 1024
EvictCount == 256
LastKey == <<"_", "_", "l", "a", "s", "t", "_", "_">>
EmptyCache == [keys |-> <<>>, values |-> [x \in {} |-> <<>>]]

Range(seq) == { seq[i] : i \in 1..Len(seq) }

\* an OpenAI message: reasoning_content is absent or a string, tool_calls a list of ids
NoReasoning == [present |-> FALSE, value |-> <<>>]
Reasoning(value) == [present |-> TRUE, value |-> value]
OpenAIMessage(role, reasoning_content, tool_calls) ==
    [role |-> role, reasoning_content |-> reasoning_content, tool_calls |-> tool_calls]

\* the messages of a request body, and choices[0].message of an upstream answer
MessagesOf(req) == IF "messages" \in DOMAIN req THEN req.messages ELSE <<>>
MessageOf(up) ==
    IF "message" \in DOMAIN up THEN up.message ELSE OpenAIMessage("assistant", NoReasoning, <<>>)

RECURSIVE FirstOccurrences(_)
\* the elements of seq in order, each once
FirstOccurrences(seq) ==
    IF seq = <<>> THEN <<>>
    ELSE <<Head(seq)>> \o FirstOccurrences(SelectSeq(Tail(seq), LAMBDA k : k # Head(seq)))

\* the dict after d[key] = value for each key of keys in order: a key it
\* holds keeps its place, a new key goes to the end
DictAssign(d, keys, value) ==
    LET held == Range(d.keys)
        assigned == Range(keys)
        once == IF Cardinality(assigned) = Len(keys) THEN keys ELSE FirstOccurrences(keys)
    IN  [keys |-> d.keys \o SelectSeq(once, LAMBDA k : k \notin held),
         values |-> [k \in held \cup assigned |-> IF k \in assigned THEN value ELSE d.values[k]]]

\* the dict after d.pop(key, None) for each key of the set keys
DictPop(d, keys) ==
    [keys |-> SelectSeq(d.keys, LAMBDA k : k \notin keys),
     values |-> [k \in Range(d.keys) \ keys |-> d.values[k]]]

\* _remember_reasoning_for_tool_calls: the ids it binds
call_ids(message) ==
    LET stripped == [i \in 1..Len(message.tool_calls) |-> strip(message.tool_calls[i])]
    IN  SelectSeq(stripped, LAMBDA id : id # <<>>)

\* _remember_reasoning_for_tool_calls: it returns before taking the lock
\* unless the message carries reasoning_content and a tool-call id
remember_ops(message) ==
    IF /\ message.reasoning_content.present
       /\ strip(message.reasoning_content.value) # <<>>
       /\ call_ids(message) # <<>>
    THEN << Op("remember") >>
    ELSE <<>>

\* _remember_reasoning_for_tool_calls: the eviction once the cache is over its limit
evict(token_cache) ==
    IF Len(token_cache.keys) > CacheLimit
    THEN DictPop(token_cache,
                 Range(SubSeq(token_cache.keys, 1, Min2(EvictCount, Len(token_cache.keys))))
                 \ {LastKey})
    ELSE token_cache

\* a lookup that takes the cache of whichever token has one
token_cache_of_any(by_token, token) ==
    IF DOMAIN by_token = {} THEN EmptyCache
    ELSE by_token[CHOOSE t \in DOMAIN by_token : \A u \in DOMAIN by_token : Len(t) <= Len(u)]

\* self._reasoning_by_token.get(token, {})
token_cache_of(by_token, token) ==
    IF token \in DOMAIN by_token THEN by_token[token] ELSE EmptyCache

\* _remember_reasoning_for_tool_calls, under self._lock
remember_reasoning(by_token, token, message) ==
    LET assigned == DictAssign(token_cache_of(by_token, token),
                               <<LastKey>> \o call_ids(message),
                               message.reasoning_content.value)
    IN  (token :> evict(assigned)) @@ by_token

\* _inject_reasoning_content: the cache is copied under the lock, then applied
inject_reasoning_ops == << Op("inject"), Op("apply") >>

\* an injection that gives every message the reasoning of the last answer
reasoning_value_of_last(token_cache, message) ==
    IF LastKey \in Range(token_cache.keys) THEN token_cache.values[LastKey] ELSE <<>>

\* _inject_reasoning_content: the value for one assistant message, empty if none
reasoning_value(token_cache, message) ==
    LET ids == call_ids(message)
        hits == { i \in 1..Len(ids) : ids[i] \in Range(token_cache.keys) }
        found == IF hits = {} THEN <<>> ELSE token_cache.values[ids[SetMin(hits)]]
    IN  IF found # <<>> THEN found
        ELSE IF LastKey \in Range(token_cache.keys) /\ strip(token_cache.values[LastKey]) # <<>>
        THEN token_cache.values[LastKey]
        ELSE <<>>

\* an injection that does not look at the role of a message
inject_any_role(token_cache, messages) ==
    IF token_cache.keys = <<>> THEN messages
    ELSE [i \in 1..Len(messages) |->
            LET message == messages[i]
            IN  IF \/ message.reasoning_content.present
                   \/ message.tool_calls = <<>>
                   \/ reasoning_value(token_cache, message) = <<>>
                THEN message
                ELSE [message EXCEPT !.reasoning_content =
                                        Reasoning(reasoning_value(token_cache, message))]]

\* _inject_reasoning_content, on the copy of the token's cache
inject_reasoning_content(token_cache, messages) ==
    IF token_cache.keys = <<>> THEN messages
    ELSE [i \in 1..Len(messages) |->
            LET message == messages[i]
            IN  IF \/ message.role # "assistant"
                   \/ message.reasoning_content.present
                   \/ message.tool_calls = <<>>
                   \/ reasoning_value(token_cache, message) = <<>>
                THEN message
                ELSE [message EXCEPT !.reasoning_content =
                                        Reasoning(reasoning_value(token_cache, message))]]

\* The network-level outcomes of urllib.request.urlopen
Outcomes ==
    [kind : {"response"}, result : UpstreamResponses]
    \cup [kind : {"http_error"}, result : UpstreamHTTPErrors]
    \cup [kind : {"url_error", "timeout"}, result : {NoUp}]

\* the outcomes of the upstream calls of the handlers beside handler 1
SideOutcomes ==
    { [kind |-> "response", result |-> [status_code |-> 200, content_type |-> "application/json", body |-> "completion"]],
      [kind |-> "timeout", result |-> NoUp] }

OutcomesOf(p) == IF p = 1 THEN Outcomes ELSE SideOutcomes

\* ProxyRuntime._post_json: HTTPError and URLError are caught; a timeout while
\* waiting for or reading the response raises TimeoutError, which is neither
post_json(outcome) ==
    CASE outcome.kind = "response"   -> [raised |-> FALSE, result |-> outcome.result]
      [] outcome.kind = "http_error" -> [raised |-> FALSE, result |-> outcome.result]
      [] outcome.kind = "url_error"  -> [raised |-> FALSE, result |-> NetworkErrorResult]
      [] outcome.kind = "timeout"    -> [raised |-> TRUE, result |-> NoUp]

\* the model field of an upstream JSON body handed on unchanged
UpstreamOwnModel == <<"?">>

\* error.type of an upstream JSON body handed on unchanged
BodyErrorType(body) ==
    IF body = "network_error_object" THEN "network_error"
    ELSE IF body = "error_object" THEN "upstream_body_error"
    ELSE "none"

\* a translation that echoes the model field of the upstream response
anthropic_response_with_upstream_model(req, mode) ==
    [status_code |-> 200, error_type |-> "none", mode |-> mode, model |-> UpstreamOwnModel,
     payload |-> "dict"]

\* ProxyRuntime._anthropic_response_from_openai: model echoes the request's model
anthropic_response_from_openai(req, mode) ==
    [status_code |-> 200, error_type |-> "none", mode |-> mode, model |-> req.model,
     payload |-> "dict"]

\* ProxyRuntime._openai_response_from_anthropic: model is the stripped requested model
openai_response_from_anthropic(req) ==
    [status_code |-> 200, error_type |-> "none", mode |-> "json", model |-> strip(req.model),
     payload |-> "dict"]

\* a passthrough that hands on whatever _parse_json_body returned
process_anthropic_passthrough_unparsed(req, up) ==
    IF up.status_code >= 400
    THEN log_upstream_answer \o record_event(EvUpstreamError)
         \o << Respond(ErrorResponse(up.status_code, "upstream_error")) >>
    ELSE record_event(EvAnthropicPassthrough) \o log_upstream_answer \o
         ( IF req.stream /\ up.content_type = "text/event-stream"
           THEN << Respond([status_code |-> up.status_code, error_type |-> "none",
                            mode |-> "sse_raw", model |-> UpstreamOwnModel,
                            payload |-> "str"]) >>
           ELSE << Respond([status_code |-> up.status_code, error_type |-> "none",
                            mode |-> "json", model |-> UpstreamOwnModel,
                            payload |-> parse_json_body(up)]) >> )

\* ProxyRuntime._process_anthropic_passthrough, after _post_json returned
process_anthropic_passthrough(req, up) ==
    IF up.status_code >= 400
    THEN log_upstream_answer \o record_event(EvUpstreamError)
         \o << Respond(ErrorResponse(up.status_code, "upstream_error")) >>
    ELSE record_event(EvAnthropicPassthrough) \o log_upstream_answer \o
         ( IF req.stream /\ up.content_type = "text/event-stream"
           THEN << Respond([status_code |-> up.status_code, error_type |-> "none",
                            mode |-> "sse_raw", model |-> UpstreamOwnModel,
                            payload |-> "str"]) >>
           ELSE IF ~IsJsonObject(up.body)
           THEN << Respond(ErrorResponse(502, "invalid_upstream_response")) >>
           ELSE << Respond([status_code |-> up.status_code, error_type |-> "none",
                            mode |-> "json", model |-> UpstreamOwnModel,
                            payload |-> parse_json_body(up)]) >> )

\* _process_anthropic_to_openai returning the 502 for a non-JSON body without logging the answer
process_anthropic_to_openai_drop_answer(req, up) ==
    IF ~IsJsonObject(up.body)
    THEN << Respond(ErrorResponse(502, "invalid_upstream_response")) >>
    ELSE IF up.status_code >= 400
    THEN record_event(EvUpstreamError) \o log_upstream_answer
         \o << Respond(ErrorResponse(up.status_code, "upstream_error")) >>
    ELSE record_event(EvAnthropicConverted) \o log_upstream_answer
         \o << Respond([status_code |-> 200, error_type |-> "none",
                        mode |-> IF req.stream THEN "sse_synth" ELSE "json", model |-> req.model,
                        payload |-> "dict"]) >>

\* ProxyRuntime._process_anthropic_to_openai, after _post_json returned
process_anthropic_to_openai(req, up) ==
    IF ~IsJsonObject(up.body)
    THEN log_upstream_answer \o << Respond(ErrorResponse(502, "invalid_upstream_response")) >>
    ELSE IF up.status_code >= 400
    THEN record_event(EvUpstreamError) \o log_upstream_answer
         \o << Respond(ErrorResponse(up.status_code, "upstream_error")) >>
    ELSE remember_ops(MessageOf(up)) \o record_event(EvAnthropicConverted) \o log_upstream_answer
         \o << Respond(anthropic_response_from_openai(req, IF req.stream THEN "sse_synth" ELSE "json")) >>

\* process_openai_chat_completions, OpenAI upstream, after _post_json returned
process_openai_passthrough(req, up) ==
    IF ~IsJsonObject(up.body)
    THEN log_upstream_answer \o << Respond(ErrorResponse(502, "invalid_upstream_response")) >>
    ELSE log_upstream_answer \o remember_ops(MessageOf(up))
         \o << Respond([status_code |-> up.status_code, error_type |-> BodyErrorType(up.body),
                        mode |-> "json", model |-> UpstreamOwnModel,
                        payload |-> parse_json_body(up)]) >>

\* an OpenAI->Anthropic path that posts again when the upstream answered an error
process_openai_to_anthropic_retry(req, up) ==
    IF ~IsJsonObject(up.body)
    THEN log_upstream_answer \o << Respond(ErrorResponse(502, "invalid_upstream_response")) >>
    ELSE IF up.status_code >= 400
    THEN log_upstream_answer \o << Op("post") >>
    ELSE log_upstream_answer \o << Respond(openai_response_from_anthropic(req)) >>

\* process_openai_chat_completions, Anthropic upstream, after _post_json returned
process_openai_to_anthropic(req, up) ==
    IF ~IsJsonObject(up.body)
    THEN log_upstream_answer \o << Respond(ErrorResponse(502, "invalid_upstream_response")) >>
    ELSE IF up.status_code >= 400
    THEN log_upstream_answer \o << Respond(ErrorResponse(up.status_code, "upstream_error")) >>
    ELSE log_upstream_answer \o << Respond(openai_response_from_anthropic(req)) >>

\* the branch taken once the route is known
AfterPost(req, route, up) ==
    CASE req.kind = "anthropic" /\ route.upstream_provider = "anthropic" -> process_anthropic_passthrough(req, up)
      [] req.kind = "anthropic" /\ route.upstream_provider # "anthropic" -> process_anthropic_to_openai(req, up)
      [] req.kind = "openai" /\ route.upstream_provider = "openai"       -> process_openai_passthrough(req, up)
      [] req.kind = "openai" /\ route.upstream_provider # "openai"       -> process_openai_to_anthropic(req, up)

\* a _select_route that takes only a route named as requested
select_route_by_name_only(table, requested_model) ==
    LET route == match(table, requested_model)
    IN  IF route = NoRoute \/ route.name # requested_model
        THEN [route |-> NoRoute, ops |-> record_event(EvRouteNotFound)]
        ELSE [route |-> route, ops |-> record_event(EvRouteSelected)]

\* a _select_route that records nothing on a miss
select_route_silent(table, requested_model) ==
    LET route == match(table, requested_model)
    IN  IF route = NoRoute
        THEN [route |-> NoRoute, ops |-> <<>>]
        ELSE [route |-> route, ops |-> record_event(EvRouteSelected)]

\* ProxyRuntime._select_route: the route or None, and the event it records
select_route(table, requested_model) ==
    LET route == match(table, requested_model)
    IN  IF route = NoRoute
        THEN [route |-> NoRoute, ops |-> record_event(EvRouteNotFound)]
        ELSE [route |-> route, ops |-> record_event(EvRouteSelected)]

\* process_anthropic_messages up to route selection
process_anthropic_messages(req) ==
    IF strip(req.model) = <<>>
    THEN << Respond(ErrorResponse(400, "bad_request")) >>
    ELSE record_event(EvAnthropicRequest) \o << Op("select") >>

\* process_openai_chat_completions without the check of model
process_openai_chat_completions_unchecked(req) == << Op("select") >>

\* process_openai_chat_completions up to route selection
process_openai_chat_completions(req) ==
    IF strip(req.model) = <<>>
    THEN << Respond(ErrorResponse(400, "bad_request")) >>
    ELSE << Op("select") >>

\* body.get("payload", {}) is a dict; a request without the field has the default
PayloadIsObject(req) == IF "payload_is_object" \in DOMAIN req THEN req.payload_is_object ELSE TRUE

\* the 400 answers of the control endpoints, {"error": <reason>}
ControlError(reason) ==
    [status_code |-> 400, error_type |-> reason, mode |-> "json", model |-> <<>>, payload |-> "dict"]

\* a do_POST that records an event whatever its payload is
do_POST_any_payload(req) ==
    CASE req.kind = "register" ->
            IF strip(req.token) = <<>> THEN << Respond(ControlError("token is required")) >>
            ELSE register_session \o << Respond(ControlResponse(200)) >>
      [] req.kind = "event" ->
            IF strip(req.token) = <<>> \/ strip(req.event_type) = <<>>
            THEN << Respond(ControlError("token and event_type are required")) >>
            ELSE record_event(strip(req.event_type)) \o << Respond(ControlResponse(200)) >>
      [] req.kind = "anthropic" -> process_anthropic_messages(req)
      [] req.kind = "openai" -> process_openai_chat_completions(req)

\* ProxyRequestHandler.do_POST
do_POST(req) ==
    CASE req.kind = "register" ->
            IF strip(req.token) = <<>> THEN << Respond(ControlError("token is required")) >>
            ELSE register_session \o << Respond(ControlResponse(200)) >>
      [] req.kind = "event" ->
            IF strip(req.token) = <<>> \/ strip(req.event_type) = <<>>
            THEN << Respond(ControlError("token and event_type are required")) >>
            ELSE IF ~PayloadIsObject(req)
            THEN << Respond(ControlError("payload must be an object")) >>
            ELSE record_event(strip(req.event_type)) \o << Respond(ControlResponse(200)) >>
      [] req.kind = "anthropic" -> process_anthropic_messages(req)
      [] req.kind = "openai" -> process_openai_chat_completions(req)

\* the token the Runtime and the store see
SessionToken(req) == IF req.kind \in {"register", "event"} THEN strip(req.token) ELSE req.token

----------------------------------------------------------------------------
(* What the trajectory records hold *)

UpperLetters == <<"A","B","C","D","E","F","G","H","I","J","K","L","M","N","O","P","Q","R","S","T","U","V","W","X","Y","Z">>
LowerLetters == <<"a","b","c","d","e","f","g","h","i","j","k","l","m","n","o","p","q","r","s","t","u","v","w","x","y","z">>

\* str.lower()
lower(s) ==
    [i \in DOMAIN s |->
        IF \E k \in DOMAIN UpperLetters : UpperLetters[k] = s[i]
        THEN LowerLetters[CHOOSE k \in DOMAIN UpperLetters : UpperLetters[k] = s[i]]
        ELSE s[i]]

HdrAuthorization == <<"A","u","t","h","o","r","i","z","a","t","i","o","n">>
HdrXApiKey == <<"x","-","a","p","i","-","k","e","y">>
HdrAnthropicVersion == <<"a","n","t","h","r","o","p","i","c","-","v","e","r","s","i","o","n">>
AnthropicVersion == <<"2","0","2","3","-","0","6","-","0","1">>
BearerScheme == <<"B","e","a","r","e","r"," ">>
Masked == <<"*","*","*">>

\* the header names _masked_headers hides, in lower case
SensitiveHeaders ==
    { <<"a","u","t","h","o","r","i","z","a","t","i","o","n">>,
      <<"x","-","a","p","i","-","k","e","y">>,
      <<"a","p","i","-","k","e","y">> }

\* the upstream_headers each path builds from the route
upstream_headers(route) ==
    IF route.upstream_provider = "anthropic"
    THEN (HdrXApiKey :> route.upstream_api_key) @@ (HdrAnthropicVersion :> AnthropicVersion)
    ELSE (HdrAuthorization :> (BearerScheme \o route.upstream_api_key))

\* a _masked_headers that compares the header names as written
masked_headers_exact(headers) ==
    [key \in DOMAIN headers |-> IF key \in SensitiveHeaders THEN Masked ELSE headers[key]]

\* ProxyRuntime._masked_headers
masked_headers(headers) ==
    [key \in DOMAIN headers |-> IF lower(key) \in SensitiveHeaders THEN Masked ELSE headers[key]]

\* the string values of the payload store.write_query is given
QueryValues(req, route) ==
    LET headers == masked_headers(upstream_headers(route))
    IN  {route.name, route.upstream_model} \cup {headers[key] : key \in DOMAIN headers}

\* the string values of the payload store.write_answer is given
AnswerValues(req, route) == {route.name}

\* the string values of the event record store.append is given
EventValues(req, route, event_type) ==
    IF req.kind = "event" THEN {event_type}
    ELSE IF event_type \in {EvAnthropicRequest, EvRouteNotFound} THEN {strip(req.model)}
    ELSE IF event_type = EvRouteSelected THEN {route.name, strip(req.model), route.upstream_model}
    ELSE IF event_type \in {EvAnthropicPassthrough, EvAnthropicConverted} THEN {route.name}
    ELSE {}

----------------------------------------------------------------------------
(* State *)

EmptyFn == [x \in {} |-> 0]

Dirs == {safe_file_token(SessionToken(r)) : r \in Requests}

IdleHandler ==
    [pc |-> "idle", req |-> NoReq, todo |-> <<>>, route |-> NoRoute, stamp |-> <<>>,
     up |-> NoUp, resp |-> NoResp, t |-> 0, path |-> <<>>,
     queries |-> {}, answers |-> {}, posts |-> 0, lookups |-> 0, outcome |-> "none",
     events |-> <<>>, query_headers |-> EmptyFn, logged |-> {},
     connected |-> TRUE, sent |-> "none",
     token_cache |-> EmptyCache, messages |-> <<>>, served |-> 0]

PcOf(o) ==
    CASE o.op = "touch"   -> "re_now"
      [] o.op = "regupd"  -> "rg_now"
      [] o.op = "append"  -> "ap_stamp"
      [] o.op = "select"  -> "select"
      [] o.op = "query"   -> "wq_open"
      [] o.op = "post"    -> "post"
      [] o.op = "answer"  -> "wa_open"
      [] o.op = "respond" -> "respond"
      [] o.op = "inject"  -> "inject"
      [] o.op = "apply"   -> "inject_apply"
      [] o.op = "remember" -> "remember"

\* continue with the operations rest
Advance(hp, rest) ==
    [hp EXCEPT !.todo = rest, !.pc = IF rest = <<>> THEN "done" ELSE PcOf(Head(rest))]

\* the thread of handler p has ended, or is handling a request
Finished(p) == h[p].pc \in {"done", "crashed"}
Running(p) == h[p].pc \notin {"idle", "done", "crashed"}

Init ==
    /\ routes = RouteTable
    /\ now = 0
    /\ sessions = EmptyFn
    /\ files = EmptyFn
    /\ suffix_counter = EmptyFn
    /\ storeLock = NoProc
    /\ runtimeLock = NoProc
    /\ reasoning_by_token = EmptyFn
    /\ server = "serving"
    /\ evlog = [d \in Dirs |-> <<>>]
    /\ h = [p \in Procs |-> IdleHandler]

\* the clock advances
Tick ==
    /\ now < MaxClock
    /\ now' = now + 1
    /\ UNCHANGED <<runtimeLock, reasoning_by_token, server, routes, sessions, files, suffix_counter, storeLock, evlog, h>>

\* serve_forever accepts a connection, a request of requests arrives on it
\* and do_POST dispatches it
StartWith(p, requests) ==
    /\ h[p].pc = "idle"
    /\ server = "serving"
    /\ \E req \in requests :
          h' = [h EXCEPT ![p] = Advance([h[p] EXCEPT !.req = req], do_POST(req))]
    /\ UNCHANGED <<runtimeLock, reasoning_by_token, server, routes, now, sessions, files, suffix_counter, storeLock, evlog>>

Start(p) == StartWith(p, RequestsOf(p))

----------------------------------------------------------------------------
(* Session registry: ProxyRuntime.record_event and register_session *)

\* record_event: now = _utc_now()
ReNow(p) ==
    /\ h[p].pc = "re_now"
    /\ h' = [h EXCEPT ![p].t = now, ![p].pc = "re_touch"]
    /\ UNCHANGED <<runtimeLock, reasoning_by_token, server, routes, now, sessions, files, suffix_counter, storeLock, evlog>>

\* record_event: with self._lock, refresh updated_at of a registered session
ReTouch(p) ==
    /\ h[p].pc = "re_touch"
    /\ runtimeLock = NoProc
    /\ runtimeLock' = p
    /\ LET token == SessionToken(h[p].req)
       IN  sessions' = IF token \in DOMAIN sessions
                       THEN [sessions EXCEPT ![token].updated_at = h[p].t]
                       ELSE sessions
    /\ h' = [h EXCEPT ![p].pc = "unlock"]
    /\ UNCHANGED <<reasoning_by_token, server, routes, now, files, suffix_counter, storeLock, evlog>>

\* a with self._lock block that does not end where the code ends it
UnlockLate(p) ==
    /\ h[p].pc = "unlock"
    /\ runtimeLock = p
    /\ h' = [h EXCEPT ![p] = Advance(h[p], Tail(h[p].todo))]
    /\ UNCHANGED <<runtimeLock, reasoning_by_token, server, routes, now, sessions, files,
                   suffix_counter, storeLock, evlog>>

\* the end of a with self._lock block of ProxyRuntime: the lock is released
Unlock(p) ==
    /\ h[p].pc = "unlock"
    /\ runtimeLock = p
    /\ runtimeLock' = NoProc
    /\ h' = [h EXCEPT ![p] = Advance(h[p], Tail(h[p].todo))]
    /\ UNCHANGED <<reasoning_by_token, server, routes, now, sessions, files, suffix_counter,
                   storeLock, evlog>>

\* _inject_reasoning_content: with self._lock, copy the cache of the token
Inject(p) ==
    /\ h[p].pc = "inject"
    /\ runtimeLock = NoProc
    /\ runtimeLock' = p
    /\ h' = [h EXCEPT ![p].token_cache = token_cache_of(reasoning_by_token, h[p].req.token),
                      ![p].pc = "unlock"]
    /\ UNCHANGED <<reasoning_by_token, server, routes, now, sessions, files, suffix_counter,
                   storeLock, evlog>>

\* _inject_reasoning_content: the loop over the outgoing messages
InjectApply(p) ==
    /\ h[p].pc = "inject_apply"
    /\ h' = [h EXCEPT ![p] =
                Advance([h[p] EXCEPT !.messages =
                                        inject_reasoning_content(h[p].token_cache,
                                                                 MessagesOf(h[p].req))],
                        Tail(h[p].todo))]
    /\ UNCHANGED <<runtimeLock, reasoning_by_token, server, routes, now, sessions, files,
                   suffix_counter, storeLock, evlog>>

\* _remember_reasoning_for_tool_calls: with self._lock, bind the ids and evict
Remember(p) ==
    /\ h[p].pc = "remember"
    /\ runtimeLock = NoProc
    /\ runtimeLock' = p
    /\ reasoning_by_token' = remember_reasoning(reasoning_by_token, h[p].req.token,
                                                MessageOf(h[p].up))
    /\ h' = [h EXCEPT ![p].pc = "unlock"]
    /\ UNCHANGED <<server, routes, now, sessions, files, suffix_counter, storeLock, evlog>>

\* register_session: now = _utc_now()
RgNow(p) ==
    /\ h[p].pc = "rg_now"
    /\ h' = [h EXCEPT ![p].t = now, ![p].pc = "rg_update"]
    /\ UNCHANGED <<runtimeLock, reasoning_by_token, server, routes, now, sessions, files, suffix_counter, storeLock, evlog>>

\* do_POST: str(value) if value else None
OrNone(value) == IF value \in {NoneVal, ""} THEN NoneVal ELSE value

\* a register_session that rebuilds the session of a token it already holds
RegisterRecreate(registry, token, sandbox_id, task_name, t) ==
    [x \in DOMAIN registry \cup {token} |->
        IF x = token
        THEN [sandbox_id |-> sandbox_id, task_name |-> task_name, created_at |-> t, updated_at |-> t]
        ELSE registry[x]]

\* a register_session that stores its arguments as given
RegisterOverwrite(registry, token, sandbox_id, task_name, t) ==
    IF token \notin DOMAIN registry
    THEN (token :> [sandbox_id |-> sandbox_id, task_name |-> task_name,
                    created_at |-> t, updated_at |-> t]) @@ registry
    ELSE [registry EXCEPT ![token].sandbox_id = sandbox_id,
                          ![token].task_name = task_name,
                          ![token].updated_at = t]

\* register_session, under self._lock: create the session, or update the
\* fields given and updated_at
Register(registry, token, sandbox_id, task_name, t) ==
    IF token \notin DOMAIN registry
    THEN (token :> [sandbox_id |-> sandbox_id, task_name |-> task_name,
                    created_at |-> t, updated_at |-> t]) @@ registry
    ELSE [registry EXCEPT
            ![token].sandbox_id = IF sandbox_id # NoneVal THEN sandbox_id ELSE @,
            ![token].task_name = IF task_name # NoneVal THEN task_name ELSE @,
            ![token].updated_at = t]

\* register_session: with self._lock, create the session or update it
RgUpdate(p) ==
    /\ h[p].pc = "rg_update"
    /\ runtimeLock = NoProc
    /\ runtimeLock' = p
    /\ sessions' = Register(sessions, SessionToken(h[p].req), OrNone(h[p].req.sandbox_id),
                            OrNone(h[p].req.task_name), h[p].t)
    /\ h' = [h EXCEPT ![p].pc = "unlock"]
    /\ UNCHANGED <<reasoning_by_token, server, routes, now, files, suffix_counter, storeLock, evlog>>

----------------------------------------------------------------------------
(* TrajectoryStore *)

\* _write_json, path.open("w"): the file exists, created or truncated, and is empty
OpenForWrite(path) ==
    IF path \in DOMAIN files
    THEN [files EXCEPT ![path] = [complete |-> FALSE, writes |-> @.writes + 1]]
    ELSE (path :> [complete |-> FALSE, writes |-> 1]) @@ files

\* _write_json, json.dump and close: the file holds the whole record
DumpAndClose(path) == [files EXCEPT ![path].complete = TRUE]

\* _alloc_stamp: f"{base}" for the first stem of a second, then f"{base}-{count:03d}"
Stem(base, count) == IF count = 0 THEN <<base>> ELSE <<base, count>>

CounterOf(key) == IF key \in DOMAIN suffix_counter THEN suffix_counter[key] ELSE 0

\* a counter keyed by the token as given, not by the directory it names
StampKeyByRawToken(token, base) == <<token, base>>

\* the key of _suffix_counter
StampKey(token, base) == <<safe_file_token(token), base>>

\* append: the stamp is read from the clock before the lock is taken
ApStamp(p) ==
    /\ h[p].pc = "ap_stamp"
    /\ h' = [h EXCEPT ![p].t = now, ![p].pc = "ap_open"]
    /\ UNCHANGED <<runtimeLock, reasoning_by_token, server, routes, now, sessions, files, suffix_counter, storeLock, evlog>>

\* append: with self._lock, _write_json opens events/<stamp>-<event_name>.json
ApOpen(p) ==
    /\ h[p].pc = "ap_open"
    /\ storeLock = NoProc
    /\ LET dir  == safe_file_token(SessionToken(h[p].req))
           name == <<h[p].t, safe_file_token(Head(h[p].todo).ev)>>
           path == <<dir, "events", name>>
       IN  /\ files' = OpenForWrite(path)
           /\ evlog' = [evlog EXCEPT ![dir] = @ \o <<name>>]
           /\ h' = [h EXCEPT ![p].path = path, ![p].pc = "ap_dump",
                             ![p].logged = @ \cup EventValues(h[p].req, h[p].route, Head(h[p].todo).ev)]
    /\ storeLock' = p
    /\ UNCHANGED <<runtimeLock, reasoning_by_token, server, routes, now, sessions, suffix_counter>>

\* append: the record is dumped, the file closed and the lock released
ApDump(p) ==
    /\ h[p].pc = "ap_dump"
    /\ files' = DumpAndClose(h[p].path)
    /\ storeLock' = NoProc
    /\ h' = [h EXCEPT ![p] = Advance([h[p] EXCEPT !.events = Append(@, Head(h[p].todo).ev)],
                                     Tail(h[p].todo))]
    /\ UNCHANGED <<runtimeLock, reasoning_by_token, server, routes, now, sessions, suffix_counter, evlog>>

\* write_query: with self._lock, _alloc_stamp and _write_json opens query/<stamp>.json
WqOpen(p) ==
    /\ h[p].pc = "wq_open"
    /\ storeLock = NoProc
    /\ LET token == SessionToken(h[p].req)
           base  == now \div TicksPerSecond
           key   == StampKey(token, base)
           count == CounterOf(key)
           stamp == Stem(base, count)
           path  == <<safe_file_token(token), "query", stamp>>
       IN  /\ suffix_counter' = (key :> (count + 1)) @@ suffix_counter
           /\ files' = OpenForWrite(path)
           /\ h' = [h EXCEPT ![p].stamp = stamp, ![p].path = path,
                             ![p].queries = @ \cup {stamp}, ![p].pc = "wq_dump",
                             ![p].query_headers = masked_headers(upstream_headers(h[p].route)),
                             ![p].logged = @ \cup QueryValues(h[p].req, h[p].route)]
    /\ storeLock' = p
    /\ UNCHANGED <<runtimeLock, reasoning_by_token, server, routes, now, sessions, evlog>>

\* write_query: the record is dumped, the file closed and the lock released
WqDump(p) ==
    /\ h[p].pc = "wq_dump"
    /\ files' = DumpAndClose(h[p].path)
    /\ storeLock' = NoProc
    /\ h' = [h EXCEPT ![p] = Advance(h[p], Tail(h[p].todo))]
    /\ UNCHANGED <<runtimeLock, reasoning_by_token, server, routes, now, sessions, suffix_counter, evlog>>

\* write_answer: with self._lock, _write_json opens answer/<stamp>.json
WaOpen(p) ==
    /\ h[p].pc = "wa_open"
    /\ storeLock = NoProc
    /\ LET path == <<safe_file_token(SessionToken(h[p].req)), "answer", h[p].stamp>>
       IN  /\ files' = OpenForWrite(path)
           /\ h' = [h EXCEPT ![p].path = path, ![p].answers = @ \cup {h[p].stamp},
                             ![p].pc = "wa_dump",
                             ![p].logged = @ \cup AnswerValues(h[p].req, h[p].route)]
    /\ storeLock' = p
    /\ UNCHANGED <<runtimeLock, reasoning_by_token, server, routes, now, sessions, suffix_counter, evlog>>

\* write_answer: the record is dumped, the file closed and the lock released
WaDump(p) ==
    /\ h[p].pc = "wa_dump"
    /\ files' = DumpAndClose(h[p].path)
    /\ storeLock' = NoProc
    /\ h' = [h EXCEPT ![p] = Advance(h[p], Tail(h[p].todo))]
    /\ UNCHANGED <<runtimeLock, reasoning_by_token, server, routes, now, sessions, suffix_counter, evlog>>

----------------------------------------------------------------------------
(* ProxyRuntime: route selection, the upstream call, the response *)

\* _select_route, then the query and the upstream call of the selected path
Select(p) ==
    /\ h[p].pc = "select"
    /\ LET sel  == select_route(routes, strip(h[p].req.model))
           rest == IF sel.route = NoRoute
                   THEN << Respond(ErrorResponse(404, "route_not_found")) >>
                   ELSE (IF sel.route.upstream_provider = "openai"
                         THEN inject_reasoning_ops ELSE <<>>)
                        \o log_upstream_query \o << Op("post") >>
       IN  h' = [h EXCEPT ![p] = Advance([h[p] EXCEPT !.route = sel.route, !.lookups = @ + 1],
                                         sel.ops \o rest)]
    /\ UNCHANGED <<runtimeLock, reasoning_by_token, server, routes, now, sessions, files, suffix_counter, storeLock, evlog>>

\* _post_json returns a result, or raises and the handler thread ends without a response
Post(p) ==
    /\ h[p].pc = "post"
    /\ \E outcome \in OutcomesOf(p) :
         LET r  == post_json(outcome)
             hp == [h[p] EXCEPT !.posts = @ + 1, !.outcome = outcome.kind]
         IN  h' = [h EXCEPT ![p] =
                     IF r.raised
                     THEN [hp EXCEPT !.pc = "crashed", !.todo = <<>>]
                     ELSE Advance([hp EXCEPT !.up = r.result],
                                  AfterPost(hp.req, hp.route, r.result))]
    /\ UNCHANGED <<runtimeLock, reasoning_by_token, server, routes, now, sessions, files, suffix_counter, storeLock, evlog>>

\* do_POST: how the ProxyResponse is written to the client; only /v1/messages
\* looks at response.mode, and a payload of the wrong type is answered with
\* the 500 invalid_proxy_response
send_mode(req, resp) ==
    CASE req.kind = "anthropic" ->
            IF resp.mode = "sse_raw" /\ resp.payload = "str" THEN "sse_raw"
            ELSE IF resp.mode = "sse_synth" /\ resp.payload = "dict" THEN "sse_synth"
            ELSE IF resp.payload = "dict" THEN "json"
            ELSE "invalid_proxy_response"
      [] req.kind = "openai" ->
            IF resp.payload = "dict" THEN "json" ELSE "invalid_proxy_response"
      [] OTHER -> "json"

\* the ProxyResponse is returned to do_POST, which writes it to the client
Reply(p) ==
    /\ h[p].pc = "respond"
    /\ h' = [h EXCEPT ![p].resp = Head(h[p].todo).resp, ![p].pc = "done", ![p].todo = <<>>,
                      ![p].sent = IF h[p].connected
                                  THEN send_mode(h[p].req, Head(h[p].todo).resp)
                                  ELSE "broken_pipe"]
    /\ UNCHANGED <<runtimeLock, reasoning_by_token, server, routes, now, sessions, files, suffix_counter, storeLock, evlog>>

Next ==
    \/ Tick
    \/ \E p \in Procs :
         \/ Start(p)
         \/ ReNow(p) \/ ReTouch(p) \/ RgNow(p) \/ RgUpdate(p) \/ Unlock(p)
         \/ Inject(p) \/ InjectApply(p)
         \/ ApStamp(p) \/ ApOpen(p) \/ ApDump(p)
         \/ WqOpen(p) \/ WqDump(p) \/ WaOpen(p) \/ WaDump(p)
         \/ Select(p) \/ Post(p) \/ Reply(p)

Spec == Init /\ [][Next]_vars

----------------------------------------------------------------------------
(* Route selection alone, over every table of RouteTables *)

LookupModels == { <<"a">>, <<" ","b">>, <<"c">>, <<"z">>, <<"*">> }

RouteRequests ==
    [kind : {"openai"}, token : {<<"s">>}, model : LookupModels, stream : {FALSE},
     event_type : {<<>>}, sandbox_id : {NoneVal}, task_name : {NoneVal}]

InitRoute ==
    /\ routes \in RouteTables
    /\ now = 0
    /\ sessions = EmptyFn
    /\ files = EmptyFn
    /\ suffix_counter = EmptyFn
    /\ storeLock = NoProc
    /\ runtimeLock = NoProc
    /\ reasoning_by_token = EmptyFn
    /\ server = "serving"
    /\ evlog = [d \in Dirs |-> <<>>]
    /\ h = [p \in Procs |-> IdleHandler]

RouteStart(p) == StartWith(p, RouteRequests)

NextRoute == \E p \in Procs : RouteStart(p) \/ Select(p)

SpecRoute == InitRoute /\ [][NextRoute]_vars

\* Route selection with the events it records and the response of a miss,
\* over every table of RouteTables; a routed request stops before its query
RouteMissRequests ==
    [kind : {"anthropic", "openai"}, token : {<<"s">>}, model : LookupModels, stream : {FALSE},
     event_type : {<<>>}, sandbox_id : {NoneVal}, task_name : {NoneVal}]

RouteMissStart(p) == StartWith(p, RouteMissRequests)

NextRouteMiss ==
    \E p \in Procs :
        \/ RouteMissStart(p) \/ Select(p)
        \/ ReNow(p) \/ ReTouch(p) \/ Unlock(p)
        \/ ApStamp(p) \/ ApOpen(p) \/ ApDump(p)
        \/ Reply(p)

SpecRouteMiss == InitRoute /\ [][NextRouteMiss]_vars

----------------------------------------------------------------------------
(* Token extraction alone: ProxyRequestHandler._extract_token *)

\* str.startswith(prefix)
startswith(s, prefix) == Len(s) >= Len(prefix) /\ SubSeq(s, 1, Len(prefix)) = prefix

\* s.split(" ", 1)[1], for an s that holds a space
AfterFirstSpace(s) ==
    LET k == SetMin({i \in DOMAIN s : s[i] = " "})
    IN  SubSeq(s, k + 1, Len(s))

BearerPrefix == <<"b","e","a","r","e","r"," ">>

\* a header or body field as headers.get / body.get returns it: absent (None) or a string
Absent == [present |-> FALSE, value |-> <<>>]
Given(value) == [present |-> TRUE, value |-> value]

\* a _extract_token that looks at x-api-key before Authorization
extract_token_key_first(authorization, header_key, session_token) ==
    IF header_key.present /\ header_key.value # <<>> THEN header_key.value
    ELSE IF /\ authorization.present /\ authorization.value # <<>>
            /\ startswith(lower(authorization.value), BearerPrefix)
            /\ strip(AfterFirstSpace(authorization.value)) # <<>>
    THEN strip(AfterFirstSpace(authorization.value))
    ELSE IF session_token.present THEN session_token.value
    ELSE Anonymous

\* ProxyRequestHandler._extract_token; body.session_token is absent or a JSON string
extract_token(authorization, header_key, session_token) ==
    IF /\ authorization.present /\ authorization.value # <<>>
       /\ startswith(lower(authorization.value), BearerPrefix)
       /\ strip(AfterFirstSpace(authorization.value)) # <<>>
    THEN strip(AfterFirstSpace(authorization.value))
    ELSE IF header_key.present /\ header_key.value # <<>> THEN header_key.value
    ELSE IF session_token.present THEN session_token.value
    ELSE Anonymous

\* Authorization headers, each with the Bearer value it carries (<<>> if none)
AuthorizationHeaders ==
    { [header |-> Absent, bearer |-> <<>>],
      [header |-> Given(<<>>), bearer |-> <<>>],
      [header |-> Given(<<"B","e","a","r","e","r"," ","k">>), bearer |-> <<"k">>],
      [header |-> Given(<<"b","e","a","r","e","r"," "," ","k"," ">>), bearer |-> <<"k">>],
      [header |-> Given(<<"B","E","A","R","E","R"," ","k">>), bearer |-> <<"k">>],
      [header |-> Given(<<"B","e","a","r","e","r"," ">>), bearer |-> <<>>],
      [header |-> Given(<<"B","e","a","r","e","r">>), bearer |-> <<>>],
      [header |-> Given(<<"B","a","s","i","c"," ","k">>), bearer |-> <<>>] }
ApiKeyHeaders == { Absent, Given(<<>>), Given(<<"x">>) }
SessionTokenFields == { Absent, Given(<<>>), Given(<<"b">>) }

TokenInputs ==
    [pc : {"idle"}, authorization : AuthorizationHeaders, x_api_key : ApiKeyHeaders,
     session_token : SessionTokenFields, token : {<<>>}]

InitToken ==
    /\ routes = RouteTable
    /\ now = 0
    /\ sessions = EmptyFn
    /\ files = EmptyFn
    /\ suffix_counter = EmptyFn
    /\ storeLock = NoProc
    /\ runtimeLock = NoProc
    /\ reasoning_by_token = EmptyFn
    /\ server = "serving"
    /\ evlog = [d \in Dirs |-> <<>>]
    /\ h \in [Procs -> TokenInputs]

\* do_POST: token = self._extract_token(body=body)
ExtractToken(p) ==
    /\ h[p].pc = "idle"
    /\ h' = [h EXCEPT ![p].token = extract_token(h[p].authorization.header, h[p].x_api_key,
                                                 h[p].session_token),
                      ![p].pc = "done"]
    /\ UNCHANGED <<runtimeLock, reasoning_by_token, server, routes, now, sessions, files, suffix_counter, storeLock, evlog>>

NextToken == \E p \in Procs : ExtractToken(p)

SpecToken == InitToken /\ [][NextToken]_vars

----------------------------------------------------------------------------
(* The response mode: chat requests of both protocols, streaming or not *)

StreamModels == { <<"a", " ">>, <<"b">> }
StreamRequests ==
    [kind : {"anthropic", "openai"}, token : Tokens, model : StreamModels, stream : BOOLEAN,
     event_type : {<<>>}, sandbox_id : {NoneVal}, task_name : {NoneVal}]

StreamStart(p) == StartWith(p, IF p = 1 THEN StreamRequests ELSE SideRequests)

NextStream ==
    \/ Tick
    \/ \E p \in Procs :
         \/ StreamStart(p)
         \/ ReNow(p) \/ ReTouch(p) \/ RgNow(p) \/ RgUpdate(p) \/ Unlock(p)
         \/ Inject(p) \/ InjectApply(p)
         \/ ApStamp(p) \/ ApOpen(p) \/ ApDump(p)
         \/ WqOpen(p) \/ WqDump(p) \/ WaOpen(p) \/ WaDump(p)
         \/ Select(p) \/ Post(p) \/ Reply(p)

SpecStream == Init /\ [][NextStream]_vars

----------------------------------------------------------------------------
(* The reasoning cache alone: requests with an OpenAI upstream, of which only *)
(* the reasoning steps are kept.  A handler serves several requests in turn.  *)

MaxServed == 3

IdC == <<"c">>
IdD == <<"d">>
ReasoningTokens == { <<"s">>, <<"s", "/">> }

\* the assistant turns a request replays
ReplayedMessages ==
    { <<>>,
      << OpenAIMessage("assistant", NoReasoning, <<IdC>>) >>,
      << OpenAIMessage("assistant", NoReasoning, <<IdD, <<" ", "c">> >>) >>,
      << OpenAIMessage("assistant", Reasoning(<<"X">>), <<IdC>>) >>,
      << OpenAIMessage("user", NoReasoning, <<IdC>>),
         OpenAIMessage("assistant", NoReasoning, <<>>),
         OpenAIMessage("assistant", NoReasoning, <<IdD>>) >> }

ReasoningRequests(p) ==
    [kind : {"openai"}, token : IF p = 1 THEN {<<"s">>} ELSE ReasoningTokens,
     model : {<<"a">>}, stream : {FALSE},
     event_type : {<<>>}, sandbox_id : {NoneVal}, task_name : {NoneVal},
     messages : IF p = 1 THEN ReplayedMessages
                ELSE {<< OpenAIMessage("assistant", NoReasoning, <<IdC>>) >>}]

\* the reasoning texts the upstream sends on a token: a conversation has its own
ReasoningOn(token) ==
    IF token = <<"s">> THEN { <<"R", "1">>, <<"R", "2">> } ELSE { <<"Q">> }

\* choices[0].message of the upstream answers to handler p on token
UpstreamMessages(p, token) ==
    IF p # 1
    THEN { OpenAIMessage("assistant", Reasoning(CHOOSE r \in ReasoningOn(token) : TRUE), <<IdC>>) }
    ELSE { OpenAIMessage("assistant", NoReasoning, <<IdC>>),
           OpenAIMessage("assistant", Reasoning(<<" ">>), <<IdC>>),
           OpenAIMessage("assistant", Reasoning(<<"R", "1">>), <<IdD, IdC>>),
           OpenAIMessage("assistant", Reasoning(<<"R", "2">>), <<IdD>>) }

\* a chat request arrives; of its handling only the reasoning steps are kept
ReasoningStart(p) ==
    /\ h[p].pc = "idle"
    /\ \E req \in ReasoningRequests(p) :
          h' = [h EXCEPT ![p] = Advance([h[p] EXCEPT !.req = req, !.route = RouteA],
                                         inject_reasoning_ops \o << Op("post") >>)]
    /\ UNCHANGED <<runtimeLock, reasoning_by_token, server, routes, now, sessions, files,
                   suffix_counter, storeLock, evlog>>

\* _post_json returns the upstream's answer
ReasoningPost(p) ==
    /\ h[p].pc = "post"
    /\ \E message \in UpstreamMessages(p, h[p].req.token) :
          h' = [h EXCEPT ![p] =
                  Advance([h[p] EXCEPT !.posts = @ + 1, !.outcome = "response",
                                       !.up = [status_code |-> 200,
                                               content_type |-> "application/json",
                                               body |-> "completion", message |-> message]],
                          remember_ops(message) \o << Respond(ControlResponse(200)) >>)]
    /\ UNCHANGED <<runtimeLock, reasoning_by_token, server, routes, now, sessions, files,
                   suffix_counter, storeLock, evlog>>

\* the handler thread of the next connection
Again(p) ==
    /\ h[p].pc = "done"
    /\ h[p].served + 1 < MaxServed
    /\ h' = [h EXCEPT ![p] = [IdleHandler EXCEPT !.served = h[p].served + 1]]
    /\ UNCHANGED <<runtimeLock, reasoning_by_token, server, routes, now, sessions, files,
                   suffix_counter, storeLock, evlog>>

NextReasoning ==
    \E p \in Procs :
        \/ ReasoningStart(p) \/ Inject(p) \/ InjectApply(p) \/ ReasoningPost(p)
        \/ Remember(p) \/ Unlock(p) \/ Reply(p) \/ Again(p)

SpecReasoning == Init /\ [][NextReasoning]_vars

----------------------------------------------------------------------------
(* The size of the reasoning cache: upstream answers on one token, each with  *)
(* a number of tool calls whose ids are new.                                   *)

MaxBatches == 2

\* the numbers of tool calls of an answer to handler p
BatchSizes(p) == IF p = 1 THEN {1023, 1300} ELSE {1}

\* the id of the i-th tool call of the answer to the request served of handler p
BatchId(p, served, i) == << ToString(p) \o "." \o ToString(served) \o "." \o ToString(i) >>

\* _post_json returned an answer with n tool calls and reasoning_content
BatchAnswer(p) ==
    /\ h[p].pc = "idle"
    /\ h[p].served < MaxBatches
    /\ \E n \in BatchSizes(p) :
         LET message == OpenAIMessage("assistant", Reasoning(<<"R">>),
                                      [i \in 1..n |-> BatchId(p, h[p].served, i)])
             req == [kind |-> "openai", token |-> <<"s">>, model |-> <<"a">>, stream |-> FALSE,
                     event_type |-> <<>>, sandbox_id |-> NoneVal, task_name |-> NoneVal]
         IN  h' = [h EXCEPT ![p] =
                     Advance([h[p] EXCEPT !.req = req, !.route = RouteA, !.posts = 1,
                                          !.outcome = "response",
                                          !.up = [status_code |-> 200,
                                                  content_type |-> "application/json",
                                                  body |-> "completion", message |-> message]],
                             remember_ops(message) \o << Respond(ControlResponse(200)) >>)]
    /\ UNCHANGED <<runtimeLock, reasoning_by_token, server, routes, now, sessions, files,
                   suffix_counter, storeLock, evlog>>

NextCache ==
    \E p \in Procs : BatchAnswer(p) \/ Remember(p) \/ Unlock(p) \/ Reply(p) \/ Again(p)

SpecCache == Init /\ [][NextCache]_vars

----------------------------------------------------------------------------
(* The server's life: LLMProxyServer.stop() while handlers run, and clients  *)
(* that go away before the answer.                                            *)

ServerRequests ==
    [kind : {"anthropic", "openai"}, token : Tokens, model : StreamModels, stream : {FALSE},
     event_type : {<<>>}, sandbox_id : {NoneVal}, task_name : {NoneVal}]

ServerStart(p) == StartWith(p, IF p = 1 THEN ServerRequests ELSE SideRequests)

\* a stream that ends the handler when its client goes away
DisconnectCancels(p) ==
    /\ Running(p)
    /\ h[p].connected
    /\ runtimeLock # p
    /\ storeLock # p
    /\ h' = [h EXCEPT ![p].connected = FALSE, ![p].pc = "crashed", ![p].todo = <<>>]
    /\ UNCHANGED <<runtimeLock, reasoning_by_token, server, routes, now, sessions, files,
                   suffix_counter, storeLock, evlog>>

\* the client of handler p closes its connection; the handler reads nothing
\* from the socket before it writes the response
Disconnect(p) ==
    /\ Running(p)
    /\ h[p].connected
    /\ h' = [h EXCEPT ![p].connected = FALSE]
    /\ UNCHANGED <<runtimeLock, reasoning_by_token, server, routes, now, sessions, files,
                   suffix_counter, storeLock, evlog>>

\* stop: self._httpd.shutdown() returns once serve_forever has left its loop
Shutdown ==
    /\ server = "serving"
    /\ server' = "shut_down"
    /\ UNCHANGED <<runtimeLock, reasoning_by_token, routes, now, sessions, files,
                   suffix_counter, storeLock, evlog, h>>

\* stop: self._httpd.server_close() closes the socket; the handler threads
\* are daemon threads, which ThreadingMixIn does not keep to join
ServerClose ==
    /\ server = "shut_down"
    /\ server' = "closed"
    /\ UNCHANGED <<runtimeLock, reasoning_by_token, routes, now, sessions, files,
                   suffix_counter, storeLock, evlog, h>>

\* stop: self._thread.join(timeout=3) of the serve_forever thread, and return
StopReturn ==
    /\ server = "closed"
    /\ server' = "stopped"
    /\ UNCHANGED <<runtimeLock, reasoning_by_token, routes, now, sessions, files,
                   suffix_counter, storeLock, evlog, h>>

NextServer ==
    \/ Shutdown \/ ServerClose \/ StopReturn
    \/ \E p \in Procs :
         \/ ServerStart(p) \/ Disconnect(p)
         \/ ReNow(p) \/ ReTouch(p) \/ RgNow(p) \/ RgUpdate(p) \/ Unlock(p)
         \/ Inject(p) \/ InjectApply(p)
         \/ ApStamp(p) \/ ApOpen(p) \/ ApDump(p)
         \/ WqOpen(p) \/ WqDump(p) \/ WaOpen(p) \/ WaDump(p)
         \/ Select(p) \/ Post(p) \/ Reply(p)

SpecServer == Init /\ [][NextServer]_vars

----------------------------------------------------------------------------
(* The control endpoints alone: /sessions/register and /sessions/event *)

ControlRequest(kind, token, event_type, sandbox_id, payload_is_object) ==
    [kind |-> kind, token |-> token, model |-> <<>>, stream |-> FALSE,
     event_type |-> event_type, sandbox_id |-> sandbox_id, task_name |-> NoneVal,
     payload_is_object |-> payload_is_object]

\* the first handler's requests, and the others'
ControlRequests(p) ==
    IF p = 1
    THEN { ControlRequest("register", token, <<>>, sandbox_id, TRUE) :
             token \in {<<"s">>, <<" ">>, <<>>}, sandbox_id \in {NoneVal, "sb1"} }
         \cup
         { ControlRequest("event", token, event_type, NoneVal, payload_is_object) :
             token \in {<<"s">>, <<" ">>}, event_type \in {<<"e">>, <<" ">>, <<>>},
             payload_is_object \in BOOLEAN }
    ELSE { ControlRequest("register", <<"s">>, <<>>, "sb2", TRUE),
           ControlRequest("event", <<"s">>, <<"e">>, NoneVal, TRUE),
           ControlRequest("event", <<"t">>, <<"e">>, NoneVal, FALSE) }

ControlStart(p) == StartWith(p, ControlRequests(p))

NextControl ==
    \/ Tick
    \/ \E p \in Procs :
         \/ ControlStart(p)
         \/ ReNow(p) \/ ReTouch(p) \/ RgNow(p) \/ RgUpdate(p) \/ Unlock(p)
         \/ ApStamp(p) \/ ApOpen(p) \/ ApDump(p)
         \/ Reply(p)

SpecControl == Init /\ [][NextControl]_vars

----------------------------------------------------------------------------
(* Protocol translation and the synthesized SSE stream alone.  A tool-call    *)
(* id is a sequence of characters, a JSON value is a record [j, n, s, items], *)
(* a JSON text is a string.                                                    *)

JNull == [j |-> "null", n |-> 0, s |-> "", items |-> <<>>]
JNum(n) == [j |-> "num", n |-> n, s |-> "", items |-> <<>>]
JStr(s) == [j |-> "str", n |-> 0, s |-> s, items |-> <<>>]
\* a JSON object, as the sequence of its <<key, value>> pairs
JDict(items) == [j |-> "dict", n |-> 0, s |-> "", items |-> items]

\* json.loads on the texts of ArgumentTexts and on what json_dumps makes of
\* their values; any other text raises, and
\* _safe_json_loads returns None for a text that raises
safe_json_loads(raw) ==
    CASE raw = "{}" -> JDict(<<>>)
      [] raw = "{\"q\":1}" -> JDict(<< <<"q", JNum(1)>> >>)
      [] raw = "7" -> JNum(7)
      [] raw = "{\"q\": 1}" -> JDict(<< <<"q", JNum(1)>> >>)
      [] raw = "{\"value\": 7}" -> JDict(<< <<"value", JNum(7)>> >>)
      [] raw = "{\"value\": \"oops\"}" -> JDict(<< <<"value", JStr("oops")>> >>)
      [] OTHER -> JNull

RECURSIVE json_dumps(_)
\* json.dumps(value, ensure_ascii=False), with the default separators
json_dumps(value) ==
    LET RECURSIVE Items(_)
        Items(items) ==
            IF items = <<>> THEN ""
            ELSE "\"" \o Head(items)[1] \o "\": " \o json_dumps(Head(items)[2])
                 \o (IF Len(items) > 1 THEN ", " ELSE "") \o Items(Tail(items))
    IN  CASE value.j = "null" -> "null"
          [] value.j = "num" -> ToString(value.n)
          [] value.j = "str" -> "\"" \o value.s \o "\""
          [] value.j = "dict" -> "{" \o Items(value.items) \o "}"

\* uuid4().hex[:12] of the k-th identifier a translation generates
FreshId(prefix, k) == <<prefix, ToString(k)>>

TextBlock(text) ==
    [type |-> "text", text |-> text, id |-> <<>>, name |-> <<>>, input |-> JNull]
ToolUseBlock(id, name, input) ==
    [type |-> "tool_use", text |-> "", id |-> id, name |-> name, input |-> input]

\* _anthropic_response_from_openai: the arguments of a tool call, parsed
parsed_arguments(raw_arguments) ==
    LET parsed == safe_json_loads(raw_arguments)
    IN  IF parsed.j = "dict" THEN parsed
        ELSE JDict(<< <<"value", IF parsed # JNull THEN parsed ELSE JStr(raw_arguments)>> >>)

\* _anthropic_response_from_openai: the content blocks made of choices[0].message,
\* whose content is None or a string
anthropic_content_from_openai(message) ==
    LET calls == message.tool_calls
        RECURSIVE Tools(_)
        Tools(i) ==
            IF i > Len(calls) THEN <<>>
            ELSE (IF strip(calls[i].name) = <<>> THEN <<>>
                  ELSE << ToolUseBlock(IF strip(calls[i].id) # <<>>
                                       THEN strip(calls[i].id) ELSE FreshId("toolu_", i),
                                       strip(calls[i].name),
                                       parsed_arguments(calls[i].arguments)) >>)
                 \o Tools(i + 1)
    IN  (IF message.content \notin {NoneVal, ""} THEN <<TextBlock(message.content)>> ELSE <<>>)
        \o Tools(1)

\* _anthropic_response_from_openai: stop_reason of choices[0].finish_reason
stop_reason_from_openai(finish_reason) ==
    CASE finish_reason = "length" -> "max_tokens"
      [] finish_reason = "tool_calls" -> "tool_use"
      [] OTHER -> "end_turn"

\* one SSE event; index is -1, and a field NoneVal, where the event has none
SSEEvent(event, index, block_type, input, delta_type, delta, stop_reason) ==
    [event |-> event, index |-> index, block_type |-> block_type, input |-> input,
     delta_type |-> delta_type, delta |-> delta, stop_reason |-> stop_reason]

BlockStart(index, block_type, input) ==
    SSEEvent("content_block_start", index, block_type, input, NoneVal, NoneVal, NoneVal)
BlockDelta(index, delta_type, delta) ==
    SSEEvent("content_block_delta", index, NoneVal, NoneVal, delta_type, delta, NoneVal)
BlockStop(index) ==
    SSEEvent("content_block_stop", index, NoneVal, NoneVal, NoneVal, NoneVal, NoneVal)

\* a stream whose content_block_start carries the whole block and no delta follows
block_events_whole(index, block) ==
    << BlockStart(index, block.type, IF block.type = "tool_use" THEN block.input ELSE NoneVal),
       BlockStop(index) >>

\* _send_sse_message: the events of the content block at index
block_events(index, block) ==
    CASE block.type = "text" ->
            << BlockStart(index, "text", NoneVal),
               BlockDelta(index, "text_delta", block.text),
               BlockStop(index) >>
      [] block.type = "tool_use" ->
            << BlockStart(index, "tool_use", JDict(<<>>)),
               BlockDelta(index, "input_json_delta", json_dumps(block.input)),
               BlockStop(index) >>
      [] OTHER ->
            << BlockStart(index, block.type, NoneVal), BlockStop(index) >>

\* _send_sse_message: the events sent for payload, in order
send_sse_message(payload) ==
    LET RECURSIVE Blocks(_)
        Blocks(i) ==
            IF i > Len(payload.content) THEN <<>>
            ELSE block_events(i - 1, payload.content[i]) \o Blocks(i + 1)
    IN  << SSEEvent("message_start", -1, NoneVal, NoneVal, NoneVal, NoneVal, NoneVal) >>
        \o Blocks(1)
        \o << SSEEvent("message_delta", -1, NoneVal, NoneVal, NoneVal, NoneVal,
                       payload.stop_reason),
              SSEEvent("message_stop", -1, NoneVal, NoneVal, NoneVal, NoneVal, NoneVal) >>

ArgumentTexts == {"{}", "{\"q\":1}", "7", "oops"}
ToolCallIds == {<<>>, <<"c">>, <<" ", "c">>}
ToolNames == {<<>>, <<"f">>}
OpenAIToolCalls == [id : ToolCallIds, name : ToolNames, arguments : ArgumentTexts]
MaxToolCalls == 2
ToolCallLists == UNION { [1..n -> OpenAIToolCalls] : n \in 0..MaxToolCalls }
FinishReasons == {"stop", "tool_calls"}
NoPayload == [content |-> <<>>, stop_reason |-> NoneVal]

\* choices[0] of the upstream answers translated; the first handler's
UpstreamChoices ==
    [content : {NoneVal, "", "hi"}, tool_calls : ToolCallLists, finish_reason : FinishReasons]
\* and the other handlers'
SideChoices ==
    [content : {"hi"},
     tool_calls : {<<>>, <<[id |-> <<"c">>, name |-> <<"f">>, arguments |-> "{}"]>>},
     finish_reason : {"stop"}]

InitSSE ==
    /\ routes = RouteTable
    /\ now = 0
    /\ sessions = EmptyFn
    /\ files = EmptyFn
    /\ suffix_counter = EmptyFn
    /\ storeLock = NoProc
    /\ runtimeLock = NoProc
    /\ reasoning_by_token = EmptyFn
    /\ server = "serving"
    /\ evlog = [d \in Dirs |-> <<>>]
    /\ \E first \in UpstreamChoices, other \in SideChoices :
          h = [p \in Procs |->
                 [pc |-> "translate", choice |-> IF p = 1 THEN first ELSE other,
                  payload |-> NoPayload, events |-> <<>>]]

\* _process_anthropic_to_openai: anthropic_response = _anthropic_response_from_openai(...)
Translate(p) ==
    /\ h[p].pc = "translate"
    /\ h' = [h EXCEPT ![p].payload =
                         [content |-> anthropic_content_from_openai(h[p].choice),
                          stop_reason |-> stop_reason_from_openai(h[p].choice.finish_reason)],
                      ![p].pc = "send"]
    /\ UNCHANGED <<runtimeLock, reasoning_by_token, server, routes, now, sessions, files,
                   suffix_counter, storeLock, evlog>>

\* do_POST: self._send_sse_message(result.payload) of a sse_synth response
SendSSE(p) ==
    /\ h[p].pc = "send"
    /\ h' = [h EXCEPT ![p].events = send_sse_message(h[p].payload), ![p].pc = "done"]
    /\ UNCHANGED <<runtimeLock, reasoning_by_token, server, routes, now, sessions, files,
                   suffix_counter, storeLock, evlog>>

NextSSE == \E p \in Procs : Translate(p) \/ SendSSE(p)

SpecSSE == InitSSE /\ [][NextSSE]_vars

----------------------------------------------------------------------------
(* Request translation alone.  A content value (a message's content, the   *)
(* system field, the content of a tool_result) is absent, a string or a    *)
(* list of blocks; a text is a string; ids, names and tool-choice words    *)
(* are sequences of characters.                                            *)

NoContent == [k |-> "none"]
Str(s) == [k |-> "str", s |-> s]
BlockList(blocks) == [k |-> "list", blocks |-> blocks]

RECURSIVE Join(_)
\* "\n".join(parts)
Join(parts) ==
    IF parts = <<>> THEN ""
    ELSE IF Len(parts) = 1 THEN parts[1]
    ELSE parts[1] \o "\n" \o Join(Tail(parts))

ReqText(text) == [type |-> "text", text |-> text]
ReqToolUse(id, name, input) == [type |-> "tool_use", id |-> id, name |-> name, input |-> input]
ToolResult(tool_use_id, content, is_error) ==
    [type |-> "tool_result", tool_use_id |-> tool_use_id, content |-> content,
     is_error |-> is_error]

\* the texts of the text blocks of a list, in order
TextsOf(blocks) ==
    LET texts == SelectSeq(blocks, LAMBDA b : b.type = "text")
    IN  [i \in 1..Len(texts) |-> texts[i].text]

\* _extract_text_content
extract_text_content(content) ==
    CASE content.k = "str" -> content.s
      [] content.k = "list" -> Join(TextsOf(content.blocks))
      [] OTHER -> ""

\* _normalize_anthropic_content_blocks
normalize_anthropic_content_blocks(content) ==
    CASE content.k = "str" -> << ReqText(content.s) >>
      [] content.k = "list" -> content.blocks
      [] OTHER -> <<>>

\* _serialize_block_content; a list without text is the empty list here
serialize_block_content(content) ==
    CASE content.k = "none" -> ""
      [] content.k = "str" -> content.s
      [] OTHER -> IF extract_text_content(content) # ""
                  THEN extract_text_content(content) ELSE "[]"

\* if not isinstance(raw_input, (dict, list)): raw_input = {"value": raw_input}
wrapped_input(raw_input) ==
    IF raw_input.j = "dict" THEN raw_input ELSE JDict(<< <<"value", raw_input>> >>)

ToolCall(id, name, arguments) == [id |-> id, name |-> name, arguments |-> arguments]
SystemMessage(content) == [role |-> "system", content |-> Str(content)]
UserMessage(content) == [role |-> "user", content |-> Str(content)]
\* an assistant message; an empty tool_calls stands for the absent key too
AssistantMessage(content, tool_calls) ==
    [role |-> "assistant", content |-> Str(content), tool_calls |-> tool_calls]
ToolMessage(tool_call_id, content) ==
    [role |-> "tool", tool_call_id |-> tool_call_id, content |-> Str(content)]

\* _anthropic_messages_to_openai: the message made of an assistant's blocks;
\* mi numbers the identifiers generated for this message
assistant_to_openai(mi, blocks) ==
    LET RECURSIVE Calls(_)
        Calls(i) ==
            IF i > Len(blocks) THEN <<>>
            ELSE (IF blocks[i].type = "tool_use" /\ strip(blocks[i].name) # <<>>
                  THEN << ToolCall(IF strip(blocks[i].id) # <<>> THEN strip(blocks[i].id)
                                   ELSE FreshId("call_", 10 * mi + i),
                                   strip(blocks[i].name),
                                   json_dumps(wrapped_input(blocks[i].input))) >>
                  ELSE <<>>)
                 \o Calls(i + 1)
        content == Join(TextsOf(blocks))
    IN  IF content # "" \/ Calls(1) # <<>>
        THEN << AssistantMessage(content, Calls(1)) >>
        ELSE <<>>

\* a flush that joins the pending texts last first
flush_pending_reversed(pending_text) ==
    IF pending_text # <<>>
    THEN << UserMessage(Join([i \in 1..Len(pending_text) |->
                                pending_text[Len(pending_text) + 1 - i]])) >>
    ELSE <<>>

\* _flush_pending_user_text
flush_pending_user_text(pending_text) ==
    IF pending_text # <<>> THEN << UserMessage(Join(pending_text)) >> ELSE <<>>

RECURSIVE user_blocks_to_openai(_, _)
\* _anthropic_messages_to_openai: the loop over a user message's blocks and
\* the flush after it
user_blocks_to_openai(blocks, pending_text) ==
    IF blocks = <<>> THEN flush_pending_user_text(pending_text)
    ELSE LET block == Head(blocks)
         IN  CASE block.type = "text" ->
                    user_blocks_to_openai(Tail(blocks), Append(pending_text, block.text))
               [] block.type = "tool_result" ->
                    LET call_id == strip(block.tool_use_id)
                        serialized == serialize_block_content(block.content)
                        tool_text == IF block.is_error
                                     THEN "[tool_error]\n" \o serialized ELSE serialized
                    IN  flush_pending_user_text(pending_text)
                        \o (IF call_id # <<>>
                            THEN << ToolMessage(call_id, tool_text) >>
                                 \o user_blocks_to_openai(Tail(blocks), <<>>)
                            ELSE user_blocks_to_openai(Tail(blocks), << tool_text >>))
               [] OTHER -> user_blocks_to_openai(Tail(blocks), pending_text)

\* _anthropic_messages_to_openai
anthropic_messages_to_openai(body) ==
    LET system_text == extract_text_content(body.system)
        RECURSIVE Messages(_)
        Messages(mi) ==
            IF mi > Len(body.messages) THEN <<>>
            ELSE LET item == body.messages[mi]
                     blocks == normalize_anthropic_content_blocks(item.content)
                 IN  (CASE item.role = "assistant" -> assistant_to_openai(mi, blocks)
                        [] item.role = "user" -> user_blocks_to_openai(blocks, <<>>)
                        [] item.role = "system" ->
                             IF extract_text_content(item.content) # ""
                             THEN << SystemMessage(extract_text_content(item.content)) >>
                             ELSE <<>>
                        [] OTHER -> <<>>)
                     \o Messages(mi + 1)
    IN  (IF system_text # "" THEN << SystemMessage(system_text) >> ELSE <<>>)
        \o Messages(1)

\* tool-choice words
WordAuto == <<"a", "u", "t", "o">>
WordNone == <<"n", "o", "n", "e">>
WordAny == <<"a", "n", "y">>
WordRequired == <<"r", "e", "q", "u", "i", "r", "e", "d">>
WordTool == <<"t", "o", "o", "l">>
WordFunction == <<"f", "u", "n", "c", "t", "i", "o", "n">>

\* a tool_choice value: absent, a string, or a dict with a type and a name
NoChoice == [k |-> "none"]
ChoiceWord(word) == [k |-> "str", word |-> word]
ChoiceDict(type, name) == [k |-> "dict", type |-> type, name |-> name]

\* _anthropic_tool_choice_to_openai
anthropic_tool_choice_to_openai(value) ==
    LET lowered == IF value.k = "str" THEN lower(strip(value.word))
                   ELSE IF value.k = "dict" THEN lower(strip(value.type)) ELSE <<>>
    IN  CASE value.k = "none" -> NoChoice
          [] lowered \in {WordAuto, WordNone} -> ChoiceWord(lowered)
          [] lowered = WordAny -> ChoiceWord(WordRequired)
          [] value.k = "dict" /\ lowered = WordTool /\ strip(value.name) # <<>> ->
                ChoiceDict(WordFunction, strip(value.name))
          [] OTHER -> NoChoice

\* _openai_tool_choice_to_anthropic
openai_tool_choice_to_anthropic(value) ==
    LET lowered == IF value.k = "str" THEN lower(strip(value.word))
                   ELSE IF value.k = "dict" THEN lower(strip(value.type)) ELSE <<>>
    IN  CASE value.k = "str" /\ lowered \in {WordAuto, WordNone} -> ChoiceDict(lowered, <<>>)
          [] value.k = "str" /\ lowered \in {WordRequired, WordAny} -> ChoiceDict(WordAny, <<>>)
          [] value.k = "dict" /\ lowered = WordFunction /\ strip(value.name) # <<>> ->
                ChoiceDict(WordTool, strip(value.name))
          [] OTHER -> NoChoice

\* {"type": "object", "properties": {}}
DefaultSchema == JDict(<< <<"type", JStr("object")>>, <<"properties", JDict(<<>>)>> >>)

\* a tool of either protocol: its name, its description (a string or None)
\* and its schema (input_schema or function.parameters, a dict or null)
Tool(name, description, schema) ==
    [name |-> name, description |-> description, schema |-> schema]

\* _anthropic_tools_to_openai and _openai_tools_to_anthropic; the description
\* is a string of letters, so description.strip() is empty only if it is
tools_translated(raw_tools) ==
    LET named == SelectSeq(raw_tools, LAMBDA item : strip(item.name) # <<>>)
    IN  [i \in 1..Len(named) |->
            Tool(strip(named[i].name),
                 IF named[i].description \notin {NoneVal, ""}
                 THEN named[i].description ELSE NoneVal,
                 IF named[i].schema.j = "dict" THEN named[i].schema ELSE DefaultSchema)]

\* _process_anthropic_to_openai: the part of openai_payload translated from the body
anthropic_request_to_openai(body) ==
    LET tools == tools_translated(body.tools)
    IN  [messages |-> anthropic_messages_to_openai(body),
         tools |-> tools,
         tool_choice |-> IF tools # <<>> THEN anthropic_tool_choice_to_openai(body.tool_choice)
                         ELSE NoChoice]

\* _openai_messages_to_anthropic: the blocks of an assistant message
assistant_to_anthropic(mi, item) ==
    LET assistant_text == serialize_block_content(item.content)
        calls == item.tool_calls
        RECURSIVE Tools(_)
        Tools(i) ==
            IF i > Len(calls) THEN <<>>
            ELSE (IF strip(calls[i].name) = <<>> THEN <<>>
                  ELSE << ReqToolUse(IF strip(calls[i].id) # <<>> THEN strip(calls[i].id)
                                     ELSE FreshId("toolu_", 10 * mi + i),
                                     strip(calls[i].name),
                                     parsed_arguments(calls[i].arguments)) >>)
                 \o Tools(i + 1)
    IN  (IF assistant_text # "" THEN << ReqText(assistant_text) >> ELSE <<>>) \o Tools(1)

AnthropicMessage(role, blocks) == [role |-> role, content |-> BlockList(blocks)]

\* _openai_messages_to_anthropic: the messages and the system value
openai_messages_to_anthropic(raw_messages) ==
    LET system_items == SelectSeq(raw_messages, LAMBDA item : item.role = "system")
        system_texts == [i \in 1..Len(system_items) |->
                            serialize_block_content(system_items[i].content)]
        system_parts == SelectSeq(system_texts, LAMBDA text : text # "")
        RECURSIVE Messages(_)
        Messages(mi) ==
            IF mi > Len(raw_messages) THEN <<>>
            ELSE LET item == raw_messages[mi]
                 IN  (CASE item.role = "tool" ->
                             IF strip(item.tool_call_id) = <<>> THEN <<>>
                             ELSE << AnthropicMessage("user",
                                        << ToolResult(strip(item.tool_call_id),
                                                      Str(serialize_block_content(item.content)),
                                                      FALSE) >>) >>
                        [] item.role = "assistant" ->
                             IF assistant_to_anthropic(mi, item) # <<>>
                             THEN << AnthropicMessage("assistant",
                                                      assistant_to_anthropic(mi, item)) >>
                             ELSE <<>>
                        [] item.role = "user" ->
                             IF serialize_block_content(item.content) # ""
                             THEN << AnthropicMessage("user",
                                        << ReqText(serialize_block_content(item.content)) >>) >>
                             ELSE <<>>
                        [] OTHER -> <<>>)
                     \o Messages(mi + 1)
    IN  [messages |-> Messages(1),
         system |-> CASE system_parts = <<>> -> NoContent
                      [] Len(system_parts) = 1 -> Str(system_parts[1])
                      [] OTHER -> BlockList(<< ReqText(Join(system_parts)) >>)]

\* process_openai_chat_completions: the part of anthropic_payload translated
\* from the body
openai_request_to_anthropic(body) ==
    LET translated == openai_messages_to_anthropic(body.messages)
        tools == tools_translated(body.tools)
    IN  [system |-> translated.system,
         messages |-> translated.messages,
         tools |-> tools,
         tool_choice |-> IF tools # <<>> THEN openai_tool_choice_to_anthropic(body.tool_choice)
                         ELSE NoChoice]

\* a map that sends every stop_reason but "max_tokens" to "stop"
finish_reason_two_way(stop_reason) ==
    IF stop_reason = "max_tokens" THEN "length" ELSE "stop"

\* _openai_response_from_anthropic: finish_reason of the answer's stop_reason
finish_reason_from_anthropic(stop_reason) ==
    CASE stop_reason = "max_tokens" -> "length"
      [] stop_reason = "tool_use" -> "tool_calls"
      [] OTHER -> "stop"

MaxBlocks == 3
SeqsUpTo(S, n) == UNION { [1..k -> S] : k \in 1..n }

UserBlocks ==
    { ReqText("a"), ReqText("b"),
      ToolResult(<<"c">>, Str("r"), FALSE), ToolResult(<<"c">>, Str("r"), TRUE),
      ToolResult(<<" ">>, Str("r"), FALSE) }
AssistantBlocks ==
    { ReqText("a"), ReqToolUse(<<"c">>, <<"f">>, JDict(<<>>)),
      ReqToolUse(<<>>, <<"f">>, JDict(<< <<"q", JNum(1)>> >>)),
      ReqToolUse(<<"d">>, <<"f">>, JNum(7)) }
UserContents == {Str("a")} \cup { BlockList(blocks) : blocks \in SeqsUpTo(UserBlocks, MaxBlocks) }
AssistantContents == { BlockList(blocks) : blocks \in SeqsUpTo(AssistantBlocks, 2) }

AnthropicBody(system, messages, tools, tool_choice) ==
    [system |-> system, messages |-> messages, tools |-> tools, tool_choice |-> tool_choice]
OpenAIBody(messages, tools, tool_choice) ==
    [messages |-> messages, tools |-> tools, tool_choice |-> tool_choice]

ToolLists ==
    { <<>>, << Tool(<<"f">>, "d", JDict(<<>>)) >>, << Tool(<<"f">>, NoneVal, JNull) >> }

\* Anthropic request bodies: conversations without tools, and one
\* conversation with each system value, tools and tool_choice
AnthropicBodies ==
    { AnthropicBody(NoContent, << [role |-> "user", content |-> content] >>, <<>>, NoChoice) :
        content \in UserContents }
    \cup
    { AnthropicBody(NoContent, << [role |-> "assistant", content |-> said],
                                  [role |-> "user", content |-> content] >>, <<>>, NoChoice) :
        said \in AssistantContents,
        content \in { BlockList(blocks) : blocks \in SeqsUpTo(UserBlocks, 2) } }
    \cup
    { AnthropicBody(system, << [role |-> "user", content |-> Str("a")] >>, tools, tool_choice) :
        system \in { NoContent, Str("s"), BlockList(<< ReqText("s"), ReqText("t") >>) },
        tools \in ToolLists,
        tool_choice \in { NoChoice, ChoiceDict(WordAuto, <<>>), ChoiceDict(WordAny, <<>>),
                          ChoiceDict(WordTool, <<"f">>), ChoiceWord(<<"A", "n", "y">>) } }

OpenAIMessages ==
    { SystemMessage("s"), UserMessage("a"), UserMessage(""),
      AssistantMessage("a", <<>>),
      AssistantMessage("", << ToolCall(<<"c">>, <<"f">>, "{\"q\":1}") >>),
      AssistantMessage("a", << ToolCall(<<>>, <<"f">>, "{}") >>),
      ToolMessage(<<"c">>, "r"), ToolMessage(<<>>, "r") }

OpenAIBodies ==
    { OpenAIBody(messages, <<>>, NoChoice) : messages \in SeqsUpTo(OpenAIMessages, 2) }
    \cup
    { OpenAIBody(<< UserMessage("a") >>, tools, tool_choice) :
        tools \in ToolLists,
        tool_choice \in { NoChoice, ChoiceWord(WordAuto), ChoiceWord(WordRequired),
                          ChoiceDict(WordFunction, <<"f">>) } }

OpenAIFinishReasons == { "stop", "length", "tool_calls", "content_filter" }
AnthropicStopReasons == { "end_turn", "max_tokens", "tool_use", "stop_sequence" }

TranslationInput(origin, body, reason) == [origin |-> origin, body |-> body, reason |-> reason]
TranslationInputs ==
    { TranslationInput("anthropic", body, reason) :
        body \in AnthropicBodies, reason \in {"end_turn"} }
    \cup { TranslationInput("openai", body, reason) :
             body \in OpenAIBodies, reason \in {"stop"} }
    \cup { TranslationInput("anthropic", AnthropicBody(NoContent, <<>>, <<>>, NoChoice), reason) :
             reason \in AnthropicStopReasons }
    \cup { TranslationInput("openai", OpenAIBody(<<>>, <<>>, NoChoice), reason) :
             reason \in OpenAIFinishReasons }
SideTranslationInputs ==
    { TranslationInput("anthropic",
                       AnthropicBody(Str("s"), << [role |-> "user", content |-> Str("a")] >>,
                                     <<>>, NoChoice), "tool_use"),
      TranslationInput("openai", OpenAIBody(<< UserMessage("a") >>, <<>>, NoChoice), "length") }

InitTranslate ==
    /\ routes = RouteTable
    /\ now = 0
    /\ sessions = EmptyFn
    /\ files = EmptyFn
    /\ suffix_counter = EmptyFn
    /\ storeLock = NoProc
    /\ runtimeLock = NoProc
    /\ reasoning_by_token = EmptyFn
    /\ server = "serving"
    /\ evlog = [d \in Dirs |-> <<>>]
    /\ \E first \in TranslationInputs, other \in SideTranslationInputs :
          h = [p \in Procs |->
                 LET input == IF p = 1 THEN first ELSE other
                 IN  [pc |-> IF input.origin = "anthropic" THEN "a2o" ELSE "o2a",
                      origin |-> input.origin,
                      first |-> input.body, body |-> input.body,
                      first_reason |-> input.reason, reason |-> input.reason,
                      legs |-> 0]]

\* _process_anthropic_to_openai builds openai_payload of the body, and
\* _openai_response_from_anthropic the finish_reason of a stop_reason
AnthropicToOpenAI(p) ==
    /\ h[p].pc = "a2o"
    /\ h' = [h EXCEPT ![p].body = anthropic_request_to_openai(h[p].body),
                      ![p].reason = finish_reason_from_anthropic(h[p].reason),
                      ![p].legs = h[p].legs + 1,
                      ![p].pc = IF h[p].legs = 0 THEN "o2a" ELSE "done"]
    /\ UNCHANGED <<runtimeLock, reasoning_by_token, server, routes, now, sessions, files,
                   suffix_counter, storeLock, evlog>>

\* process_openai_chat_completions builds anthropic_payload of the body, and
\* _anthropic_response_from_openai the stop_reason of a finish_reason
OpenAIToAnthropic(p) ==
    /\ h[p].pc = "o2a"
    /\ h' = [h EXCEPT ![p].body = openai_request_to_anthropic(h[p].body),
                      ![p].reason = stop_reason_from_openai(h[p].reason),
                      ![p].legs = h[p].legs + 1,
                      ![p].pc = IF h[p].legs = 0 THEN "a2o" ELSE "done"]
    /\ UNCHANGED <<runtimeLock, reasoning_by_token, server, routes, now, sessions, files,
                   suffix_counter, storeLock, evlog>>

NextTranslate == \E p \in Procs : AnthropicToOpenAI(p) \/ OpenAIToAnthropic(p)

SpecTranslate == InitTranslate /\ [][NextTranslate]_vars

----------------------------------------------------------------------------
(* Vocabulary of the properties *)

IsChat(p) == h[p].req.kind \in {"anthropic", "openai"}
DirOf(p) == safe_file_token(SessionToken(h[p].req))
Quiescent == \A p \in Procs : ~Running(p)

FilesOf(dir, kind) == {path \in DOMAIN files : path[1] = dir /\ path[2] = kind}
StemsOf(dir, kind) == {path[3] : path \in FilesOf(dir, kind)}

----------------------------------------------------------------------------
(* C1 *)

----------------------------------------------------------------------------
(* C2 *)

\* C2 as stated: when no handler is running, every session directory holds
\* the same stems under query/ and under answer/, whatever the upstream
\* outcomes were (timeouts included).
C2_QueryStemsEqualAnswerStems ==
    Quiescent => \A dir \in Dirs : StemsOf(dir, "query") = StemsOf(dir, "answer")

----------------------------------------------------------------------------
(* C3 *)

\* C3 as stated: a request whose upstream call failed at the network level
\* (connection failure or timeout) is answered 502 with error.type
\* "network_error", on each of the four paths.
C3_NetworkErrorSurfaced ==
    \A p \in Procs :
        (Finished(p) /\ h[p].outcome \in {"url_error", "timeout"}) =>
            /\ h[p].pc = "done"
            /\ h[p].resp.status_code = 502
            /\ h[p].resp.error_type = "network_error"

----------------------------------------------------------------------------
(* C4 *)

\* C4: no two write_query calls return the same stem for the same session
\* directory, and no query or answer file is ever written twice.
C4_StemsUnique ==
    /\ \A p, q \in Procs :
          (p # q /\ h[p].queries # {} /\ h[q].queries # {} /\ DirOf(p) = DirOf(q))
              => h[p].queries \cap h[q].queries = {}
    /\ \A path \in DOMAIN files :
          path[2] \in {"query", "answer"} => files[path].writes = 1

\* two requests with different tokens that share a session directory have
\* allocated their stems in the same second
C4_Witness ==
    \E p, q \in Procs :
        /\ p # q
        /\ h[p].req.token # h[q].req.token
        /\ DirOf(p) = DirOf(q)
        /\ h[p].pc = "done" /\ h[q].pc = "done"
        /\ h[p].queries # {} /\ h[q].queries # {}
        /\ \E sp \in h[p].queries, sq \in h[q].queries : sp[1] = sq[1]

----------------------------------------------------------------------------
(* C5 *)

\* C5 as stated: in every session directory the event files carry
\* non-decreasing filename timestamps in the order the store's lock admitted
\* their writes.
C5_EventsInTimestampOrder ==
    \A dir \in Dirs :
        \A i, j \in DOMAIN evlog[dir] :
            i < j => evlog[dir][i][1] <= evlog[dir][j][1]

----------------------------------------------------------------------------
(* C6 *)

\* C6 as stated: after n appends to a session its events directory holds
\* exactly n files.
C6_AppendOnly ==
    \A dir \in Dirs : Cardinality(FilesOf(dir, "events")) = Len(evlog[dir])

----------------------------------------------------------------------------
(* C7 *)

\* C7 as stated: a file that exists under the log directory holds its whole
\* JSON record, at every moment a reader may look.
C7_FilesAtomic ==
    \A path \in DOMAIN files : files[path].complete

----------------------------------------------------------------------------
(* C9 *)

----------------------------------------------------------------------------
(* C10 *)

HasNoModel(p) == strip(h[p].req.model) = <<>>

\* C10: a chat request without a model (absent, empty or blank) causes no
\* route lookup, no upstream call, no query and no answer file, and is
\* answered 400 bad_request.
C10_MissingModelRejected ==
    \A p \in Procs :
        (IsChat(p) /\ HasNoModel(p)) =>
            /\ h[p].lookups = 0
            /\ h[p].posts = 0
            /\ h[p].queries = {} /\ h[p].answers = {}
            /\ h[p].route = NoRoute
            /\ Finished(p) => /\ h[p].pc = "done"
                              /\ h[p].resp.status_code = 400
                              /\ h[p].resp.error_type = "bad_request"

\* an OpenAI chat request with a blank model has been answered
C10_Witness ==
    \E p \in Procs :
        /\ h[p].req.kind = "openai"
        /\ h[p].req.model = <<" ">>
        /\ h[p].pc = "done"
        /\ h[p].resp.status_code = 400

----------------------------------------------------------------------------
(* C8 *)

\* r is the first route of the table that satisfies P
FirstWith(table, P(_), r) ==
    \E i \in DOMAIN table :
        /\ P(table[i])
        /\ r = table[i]
        /\ \A j \in 1..(i - 1) : ~P(table[j])

\* the lookup rule: by name, else by request model, else the wildcard, else not found
SelectedByRule(table, m, r) ==
    IF \E i \in DOMAIN table : table[i].name = m
    THEN FirstWith(table, LAMBDA x : x.name = m, r)
    ELSE IF \E i \in DOMAIN table : table[i].request_model = m
    THEN FirstWith(table, LAMBDA x : x.request_model = m, r)
    ELSE IF \E i \in DOMAIN table : IsWildcard(table[i])
    THEN FirstWith(table, IsWildcard, r)
    ELSE r = NoRoute

C8_FollowsRule ==
    \A p \in Procs :
        h[p].lookups > 0 => SelectedByRule(routes, strip(h[p].req.model), h[p].route)

C8_SameModelSameRoute ==
    \A p, q \in Procs :
        (h[p].lookups > 0 /\ h[q].lookups > 0 /\ strip(h[p].req.model) = strip(h[q].req.model))
            => h[p].route = h[q].route

----------------------------------------------------------------------------
(* C11 *)

\* C11 as stated: a chat request answered 400 bad_request has recorded a
\* trajectory event in the session of its token before the response.
C11_BadRequestLogged ==
    \A p \in Procs :
        (IsChat(p) /\ h[p].pc = "done" /\ h[p].resp.error_type = "bad_request")
            => h[p].events # <<>>

----------------------------------------------------------------------------
(* C12 *)

\* no route of the table is named m, has request model m, or is a wildcard
NoRouteMatches(table, m) ==
    \A i \in DOMAIN table :
        table[i].name # m /\ table[i].request_model # m /\ ~IsWildcard(table[i])

RouteMissAnswered(p) ==
    /\ h[p].resp.status_code = 404
    /\ h[p].resp.error_type = "route_not_found"
    /\ EvRouteNotFound \in {h[p].events[i] : i \in DOMAIN h[p].events}

----------------------------------------------------------------------------
(* C13 *)

\* C13 as stated: a request whose upstream answered with an HTTP status >= 400
\* is answered with that status and error.type "upstream_error", and has
\* recorded an upstream_error event, on each of the four paths.
C13_UpstreamErrorEchoed ==
    \A p \in Procs :
        (h[p].pc = "done" /\ h[p].outcome = "http_error") =>
            /\ h[p].resp.status_code = h[p].up.status_code
            /\ h[p].resp.error_type = "upstream_error"
            /\ \E i \in DOMAIN h[p].events : h[p].events[i] = EvUpstreamError

----------------------------------------------------------------------------
(* C14 *)

\* C14: a chat request causes at most one upstream POST, whatever the outcome
\* of that call, and no other request causes any.
C14_NeverRetries ==
    \A p \in Procs :
        /\ h[p].posts <= 1
        /\ ~IsChat(p) => h[p].posts = 0
        /\ (Finished(p) /\ h[p].outcome # "none") => h[p].posts = 1

\* an OpenAI request routed to an Anthropic upstream that answered 429 has
\* been answered after its one upstream call
C14_Witness ==
    \E p \in Procs :
        /\ h[p].pc = "done"
        /\ h[p].req.kind = "openai"
        /\ h[p].route.upstream_provider = "anthropic"
        /\ h[p].outcome = "http_error"
        /\ h[p].up.status_code = 429
        /\ h[p].resp.status_code = 429
        /\ h[p].posts = 1

----------------------------------------------------------------------------
(* C15 *)

\* C15 as stated: once a chat request with token t has been handled, t is in
\* the session registry, whether or not t was ever registered.
C15_ChatCreatesSession ==
    \A p \in Procs :
        (IsChat(p) /\ h[p].pc = "done") => SessionToken(h[p].req) \in DOMAIN sessions

----------------------------------------------------------------------------
(* C16 *)

\* C16: a token in the session registry is in it in every later state, with
\* the created_at it was given when its session was created.
C16_SessionsKept ==
    [][\A token \in DOMAIN sessions :
          /\ token \in DOMAIN sessions'
          /\ sessions'[token].created_at = sessions[token].created_at]_vars

\* a session created at one clock reading was registered again, by the other
\* handler, at a later one, and both registers were answered
C16_Witness ==
    \E token \in DOMAIN sessions :
        /\ sessions[token].created_at < sessions[token].updated_at
        /\ \A p \in Procs :
              /\ h[p].req.kind = "register"
              /\ SessionToken(h[p].req) = token
              /\ h[p].pc = "done"

----------------------------------------------------------------------------
(* C17 *)

\* the value a field holds after register was called with argument arg
FieldAfterRegister(arg, known, previous) ==
    IF OrNone(arg) # NoneVal THEN arg
    ELSE IF known THEN previous
    ELSE NoneVal

\* handler p's register_session call takes effect in this step
Registers(p) == h[p].pc = "rg_update" /\ h'[p].pc # "rg_update"

\* C17: register creates the session of an absent token and otherwise
\* updates only the fields given as non-empty: after it, sandbox_id
\* (task_name) is the argument when that is non-empty and the previous value
\* when it is empty or missing; no other session changes; and a field once
\* set is never cleared.
C17_RegisterUpdatesGivenFields ==
    /\ [][\A p \in Procs :
            Registers(p) =>
              LET token == SessionToken(h[p].req)
                  known == token \in DOMAIN sessions
              IN  /\ DOMAIN sessions' = DOMAIN sessions \cup {token}
                  /\ sessions'[token].sandbox_id =
                        FieldAfterRegister(h[p].req.sandbox_id, known,
                                           IF known THEN sessions[token].sandbox_id ELSE NoneVal)
                  /\ sessions'[token].task_name =
                        FieldAfterRegister(h[p].req.task_name, known,
                                           IF known THEN sessions[token].task_name ELSE NoneVal)
                  /\ \A other \in DOMAIN sessions \ {token} : sessions'[other] = sessions[other]]_vars
    /\ [][\A token \in DOMAIN sessions :
            /\ sessions[token].sandbox_id # NoneVal => sessions'[token].sandbox_id # NoneVal
            /\ sessions[token].task_name # NoneVal => sessions'[token].task_name # NoneVal]_vars

\* a session holds the sandbox id of one register and the task name of
\* another, each of which left the other field empty or missing
C17_Witness ==
    \E token \in DOMAIN sessions :
        /\ sessions[token].sandbox_id = "sb2"
        /\ sessions[token].task_name = "t1"
        /\ \A p \in Procs : h[p].req.kind = "register" /\ h[p].pc = "done"
        /\ \E p \in Procs : h[p].req.sandbox_id = "" /\ h[p].req.task_name = "t1"
        /\ \E p \in Procs : h[p].req.sandbox_id = "sb2" /\ h[p].req.task_name = NoneVal

----------------------------------------------------------------------------
(* C18 *)

\* C18 as stated: over every interleaving of the handlers, the updated_at of
\* a session never decreases and is never earlier than its created_at.
C18_UpdatedAtMonotone ==
    /\ [](\A token \in DOMAIN sessions :
            sessions[token].created_at <= sessions[token].updated_at)
    /\ [][\A token \in DOMAIN sessions :
            token \in DOMAIN sessions' =>
                sessions[token].updated_at <= sessions'[token].updated_at]_vars

----------------------------------------------------------------------------
(* C19 *)

\* a header is present when it is sent with a value
HeaderPresent(header) == header.present /\ header.value # <<>>

\* C19: the token is the Bearer value of the Authorization header if it
\* carries one; else the x-api-key header if present; else
\* body.session_token if the body has one; else "anonymous".
C19_TokenPrecedence ==
    \A p \in Procs :
        h[p].pc = "done" =>
            LET bearer == h[p].authorization.bearer
            IN  h[p].token =
                  IF bearer # <<>> THEN bearer
                  ELSE IF HeaderPresent(h[p].x_api_key) THEN h[p].x_api_key.value
                  ELSE IF h[p].session_token.present THEN h[p].session_token.value
                  ELSE Anonymous

\* one request sent all three sources and got its Bearer value; another sent
\* a Basic Authorization header with x-api-key and session_token and got
\* its x-api-key
C19_Witness ==
    \E p, q \in Procs :
        /\ h[p].pc = "done" /\ h[q].pc = "done"
        /\ h[p].authorization.bearer # <<>>
        /\ HeaderPresent(h[p].x_api_key) /\ h[p].session_token.present
        /\ h[p].token = <<"k">>
        /\ h[q].authorization.header.present /\ h[q].authorization.bearer = <<>>
        /\ HeaderPresent(h[q].x_api_key) /\ h[q].session_token.present
        /\ h[q].token = <<"x">>

----------------------------------------------------------------------------
(* C20 *)

\* sub occurs in s
Contains(s, sub) ==
    \E i \in 0..(Len(s) - Len(sub)) : SubSeq(s, i + 1, i + Len(sub)) = sub

\* C20: in the query record of every request each upstream header named
\* authorization, x-api-key or api-key, in any letter case, has the value
\* "***", and no value of any event, query or answer record holds the
\* upstream api key of a route or the token the request carried in its
\* Authorization or x-api-key header.
C20_NoSecretInRecords ==
    \A p \in Procs :
        /\ h[p].queries # {} =>
              /\ DOMAIN h[p].query_headers = DOMAIN upstream_headers(h[p].route)
              /\ \A key \in DOMAIN h[p].query_headers :
                    lower(key) \in SensitiveHeaders => h[p].query_headers[key] = Masked
        /\ \A value \in h[p].logged :
              /\ \A i \in DOMAIN routes : ~Contains(value, routes[i].upstream_api_key)
              /\ \A q \in Procs : IsChat(q) => ~Contains(value, h[q].req.token)

\* a request sent to an OpenAI upstream with an Authorization header has
\* been answered, and its query record holds that header masked
C20_Witness ==
    \E p \in Procs :
        /\ h[p].pc = "done"
        /\ h[p].route.upstream_provider = "openai"
        /\ h[p].answers # {}
        /\ HdrAuthorization \in DOMAIN h[p].query_headers
        /\ h[p].query_headers[HdrAuthorization] = Masked
        /\ Contains(upstream_headers(h[p].route)[HdrAuthorization], h[p].route.upstream_api_key)

----------------------------------------------------------------------------
(* C21 *)

\* the three events of the content block i (counted from 1) of a stream
EventsOfBlock(events, i) == SubSeq(events, 3 * i - 1, 3 * i + 1)

\* C21: a synthesized SSE stream is message_start, then for each content
\* block in increasing index order its content_block_start,
\* content_block_delta and content_block_stop, all three carrying the
\* block's index, then message_delta carrying the stop_reason, then
\* message_stop and nothing after it; a tool_use block starts with an empty
\* input and its delta carries the JSON text of the full input.
C21_SynthesizedStreamOrder ==
    \A p \in Procs :
        h[p].pc = "done" =>
            LET events == h[p].events
                blocks == h[p].payload.content
                n == Len(blocks)
            IN  /\ Len(events) = 3 * n + 3
                /\ events[1].event = "message_start"
                /\ \A i \in 1..n :
                     LET e == EventsOfBlock(events, i)
                     IN  /\ <<e[1].event, e[2].event, e[3].event>> =
                              <<"content_block_start", "content_block_delta", "content_block_stop">>
                         /\ \A k \in 1..3 : e[k].index = i - 1
                         /\ blocks[i].type = "tool_use" =>
                              /\ e[1].block_type = "tool_use"
                              /\ e[1].input = JDict(<<>>)
                              /\ e[2].delta_type = "input_json_delta"
                              /\ e[2].delta = json_dumps(blocks[i].input)
                         /\ blocks[i].type = "text" =>
                              /\ e[1].block_type = "text"
                              /\ e[2].delta = blocks[i].text
                /\ events[3 * n + 2].event = "message_delta"
                /\ events[3 * n + 2].stop_reason = h[p].payload.stop_reason
                /\ events[3 * n + 3].event = "message_stop"

\* a stream of a text block followed by two tool_use blocks, one with arguments
C21_Witness ==
    \E p \in Procs :
        /\ h[p].pc = "done"
        /\ Len(h[p].payload.content) = 3
        /\ h[p].payload.content[1].type = "text"
        /\ h[p].payload.content[2].type = "tool_use"
        /\ h[p].payload.content[3].input = JDict(<< <<"q", JNum(1)>> >>)
        /\ h[p].events[9].delta = "{\"q\": 1}"
        /\ h[p].payload.stop_reason = "tool_use"

----------------------------------------------------------------------------
(* C30 *)

\* the ids of the tool_use blocks of a translated message, in order
ToolUseIds(content) ==
    LET tools == SelectSeq(content, LAMBDA b : b.type = "tool_use")
    IN  [i \in 1..Len(tools) |-> tools[i].id]

\* C30: a translated message never holds two tool calls with the same id;
\* of two tool calls of the input message that share an id, the second is
\* given a fresh id.
C30_ToolCallIdsDistinct ==
    \A p \in Procs :
        h[p].pc \in {"send", "done"} =>
            LET ids == ToolUseIds(h[p].payload.content)
            IN  \A i, j \in 1..Len(ids) : i # j => ids[i] # ids[j]

----------------------------------------------------------------------------
(* C22 *)

\* the upstream call of handler p returned an answer that its path accepts
UpstreamSucceeded(p) ==
    /\ h[p].outcome = "response"
    /\ h[p].up.status_code < 400
    /\ IsJsonObject(h[p].up.body)

\* the upstream call of handler p returned an SSE stream
UpstreamStreamed(p) ==
    /\ h[p].outcome = "response"
    /\ h[p].up.status_code < 400
    /\ h[p].up.content_type = "text/event-stream"

\* C22: the response mode of a chat request is decided by the request and
\* the route.  A text/event-stream response is sent only if stream == true.
\* With stream == true, an upstream of the other protocol that succeeds is
\* always answered with a synthesized SSE stream, and an upstream of the same
\* protocol that returns an SSE stream is answered with the raw upstream
\* body; every other successful case is answered with JSON.  This holds for
\* Anthropic-downstream requests and, symmetrically, for OpenAI-downstream
\* requests.
C22_ResponseMode ==
    \A p \in Procs :
        (h[p].pc = "done" /\ IsChat(p) /\ h[p].connected) =>
            LET req == h[p].req
                translated == h[p].route.upstream_provider # req.kind
            IN  /\ h[p].sent \in {"sse_raw", "sse_synth"} => req.stream
                /\ (req.stream /\ h[p].posts = 1 /\ translated /\ UpstreamSucceeded(p))
                      => h[p].sent = "sse_synth"
                /\ (req.stream /\ h[p].posts = 1 /\ ~translated /\ UpstreamStreamed(p))
                      => h[p].sent = "sse_raw"
                /\ (h[p].posts = 1 /\ UpstreamSucceeded(p)
                    /\ ~(req.stream /\ translated))
                      => (h[p].sent = "json" /\ h[p].resp.status_code = h[p].up.status_code)

----------------------------------------------------------------------------
(* C23, C26 *)

\* handler p has injected the cache into the messages of its request
Injected(p) == h[p].pc \in {"post", "remember", "respond", "done"} \/ (h[p].pc = "unlock" /\ h[p].posts = 1)

\* handler p has just bound the ids of its upstream answer, and holds the lock
Remembered(p) == h[p].pc = "unlock" /\ h[p].posts = 1 /\ runtimeLock = p

\* the ids of message that the cache copied by handler p holds
CachedIds(p, message) ==
    { id \in Range(call_ids(message)) : id \in Range(h[p].token_cache.keys) }

C26_ScopedToToken ==
    \A p \in Procs :
        Injected(p) =>
            \A i \in 1..Len(h[p].messages) :
                h[p].messages[i] # MessagesOf(h[p].req)[i] =>
                    h[p].messages[i].reasoning_content.value \in ReasoningOn(h[p].req.token)

\* both tokens have a cache, and a request on one of them was given its reasoning
C26_Witness ==
    /\ DOMAIN reasoning_by_token = ReasoningTokens
    /\ \E p \in Procs :
          /\ Injected(p)
          /\ h[p].req.token = <<"s", "/">>
          /\ Len(h[p].messages) = 1
          /\ h[p].messages[1].reasoning_content = Reasoning(<<"Q">>)

----------------------------------------------------------------------------
(* C24, C25 *)

\* C24: after every remember call each token's cache holds at most 1024
\* entries, whatever the answers, an answer with many tool calls included.
C24_CacheBounded ==
    \A token \in DOMAIN reasoning_by_token :
        Len(reasoning_by_token[token].keys) <= CacheLimit

\* the cache of the token of handler p once remember has bound the ids of the
\* answer, before it evicts
BeforeEviction(p) ==
    DictAssign(token_cache_of(reasoning_by_token, h[p].req.token),
               <<LastKey>> \o call_ids(MessageOf(h[p].up)),
               MessageOf(h[p].up).reasoning_content.value)

\* C25: when a remember leaves more than 1024 entries, exactly the 256
\* oldest keys other than __last__, oldest by first insertion, are evicted;
\* __last__ is retained and no younger key is removed.
C25_EvictsOldest256 ==
    [][ \A p \in Procs :
          (h[p].pc = "remember" /\ h'[p].pc = "unlock"
           /\ Len(BeforeEviction(p).keys) > CacheLimit) =>
              LET others == SelectSeq(BeforeEviction(p).keys, LAMBDA k : k # LastKey)
              IN  reasoning_by_token'[h[p].req.token].keys =
                      <<LastKey>> \o SubSeq(others, EvictCount + 1, Len(others)) ]_vars

----------------------------------------------------------------------------
(* C27 *)

\* handler p is at a with statement whose lock another handler holds
WaitsForRuntimeLock(p) ==
    h[p].pc \in {"re_touch", "rg_update", "inject", "remember"} /\ runtimeLock # NoProc
WaitsForStoreLock(p) ==
    h[p].pc \in {"ap_open", "wq_open", "wa_open"} /\ storeLock # NoProc
Waits(p) == WaitsForRuntimeLock(p) \/ WaitsForStoreLock(p)

\* C27: no handler holds two locks at once, so the Runtime lock and the
\* Store lock are never nested; no lock is held across an upstream call; and
\* no interleaving deadlocks: a handler that holds a lock is never waiting
\* for one, and while a handler runs some handler can take a step.
C27_LocksNeverNested ==
    /\ \A p \in Procs : ~(runtimeLock = p /\ storeLock = p)
    /\ \A p \in Procs : h[p].pc = "post" => (runtimeLock # p /\ storeLock # p)
    /\ \A p \in Procs : (runtimeLock = p \/ storeLock = p) => (Running(p) /\ ~Waits(p))
    /\ (\E p \in Procs : Running(p)) => (\E p \in Procs : Running(p) /\ ~Waits(p))

\* one handler is inside the Runtime lock while another is inside the Store lock
C27_Witness ==
    \E p, q \in Procs :
        /\ p # q
        /\ runtimeLock = p
        /\ storeLock = q
        /\ h[p].pc = "unlock"

----------------------------------------------------------------------------
(* C28, C29 *)

\* C28: after stop() is called no new connection is accepted, and stop()
\* closes the server socket and returns only after every handler in flight
\* has finished.
C28_StopDrains ==
    /\ server \in {"closed", "stopped"} => \A p \in Procs : ~Running(p)
    /\ server # "serving" => \A p \in Procs : h[p].pc = "idle" => ~ENABLED ServerStart(p)

----------------------------------------------------------------------------
(* C31: request translation round trip *)

\* the bag of the elements of a sequence
BagOf(seq) == [x \in Range(seq) |-> Cardinality({ i \in DOMAIN seq : seq[i] = x })]

RECURSIVE Flatten(_)
Flatten(seqs) == IF seqs = <<>> THEN <<>> ELSE Head(seqs) \o Flatten(Tail(seqs))

\* a block of an Anthropic message, without its tool-use id, its ids and
\* names stripped and its content as text
BlockModuloIds(role, block) ==
    CASE block.type = "text" -> <<role, "text", block.text>>
      [] block.type = "tool_use" ->
            <<role, "tool_use", strip(block.name), wrapped_input(block.input)>>
      [] block.type = "tool_result" ->
            <<role, "tool_result", strip(block.tool_use_id),
              serialize_block_content(block.content), block.is_error>>

\* an Anthropic body modulo ids and the order and grouping of its blocks
AnthropicModulo(body) ==
    [system |-> extract_text_content(body.system),
     blocks |-> BagOf(Flatten([mi \in 1..Len(body.messages) |->
                    LET blocks == normalize_anthropic_content_blocks(body.messages[mi].content)
                    IN  [i \in 1..Len(blocks) |->
                            BlockModuloIds(body.messages[mi].role, blocks[i])]])),
     tools |-> tools_translated(body.tools),
     tool_choice |-> body.tool_choice]

\* an OpenAI message without its tool-call ids, its arguments as JSON values
MessageModuloIds(message) ==
    CASE message.role = "assistant" ->
            <<"assistant", message.content,
              [i \in 1..Len(message.tool_calls) |->
                  <<strip(message.tool_calls[i].name),
                    safe_json_loads(message.tool_calls[i].arguments)>>]>>
      [] message.role = "tool" -> <<"tool", strip(message.tool_call_id), message.content>>
      [] OTHER -> <<message.role, message.content>>

\* an OpenAI body modulo ids and the order of its messages
OpenAIModulo(body) ==
    [messages |-> BagOf([i \in 1..Len(body.messages) |-> MessageModuloIds(body.messages[i])]),
     tools |-> tools_translated(body.tools),
     tool_choice |-> body.tool_choice]

RoundTripped(p) == h[p].pc = "done" /\ h[p].legs = 2

\* C31: a request translated to the other protocol and back is the request
\* it was, modulo the ids and the order of its blocks: for an Anthropic body
\* and for an OpenAI body.
C31_RoundTrip ==
    \A p \in Procs :
        RoundTripped(p) =>
            IF h[p].origin = "anthropic"
            THEN AnthropicModulo(h[p].body) = AnthropicModulo(h[p].first)
            ELSE OpenAIModulo(h[p].body) = OpenAIModulo(h[p].first)

----------------------------------------------------------------------------
(* C32: stop reasons *)

\* C32: finish_reason "length" becomes stop_reason "max_tokens", "tool_calls"
\* becomes "tool_use" and anything else "end_turn"; stop_reason "max_tokens"
\* becomes "length", "tool_use" becomes "tool_calls" and anything else "stop";
\* the two maps composed, in either order, give back each of stop, length,
\* tool_calls and each of end_turn, max_tokens, tool_use.
C32_StopReasons ==
    \A p \in Procs :
        LET first == h[p].first_reason
            toAnthropic == CASE first = "length" -> "max_tokens"
                             [] first = "tool_calls" -> "tool_use"
                             [] OTHER -> "end_turn"
            toOpenAI == CASE first = "max_tokens" -> "length"
                          [] first = "tool_use" -> "tool_calls"
                          [] OTHER -> "stop"
        IN  /\ h[p].legs = 1 /\ h[p].origin = "openai" => h[p].reason = toAnthropic
            /\ h[p].legs = 1 /\ h[p].origin = "anthropic" => h[p].reason = toOpenAI
            /\ h[p].legs = 2
               /\ first \in {"stop", "length", "tool_calls", "end_turn", "max_tokens", "tool_use"}
               => h[p].reason = first

C32_Witness ==
    /\ h[1].legs = 2 /\ h[1].origin = "openai" /\ h[1].first_reason = "tool_calls"
    /\ h[1].reason = "tool_calls"
    /\ h[2].legs = 1 /\ h[2].origin = "anthropic" /\ h[2].first_reason = "tool_use"
    /\ h[2].reason = "tool_calls"

----------------------------------------------------------------------------
(* C35: the blocks of an Anthropic user message, in OpenAI messages *)

\* the text _anthropic_messages_to_openai makes of a tool_result block
ToolTextOf(block) ==
    IF block.is_error THEN "[tool_error]\n" \o serialize_block_content(block.content)
    ELSE serialize_block_content(block.content)

\* what the blocks from a cut (the start of the message, or a tool_result)
\* up to the next tool_result must become: the tool message of a tool_result
\* with an id, then one user message of the text of a tool_result without an
\* id and of the text blocks that follow, if there is any
ExpectedFrom(blocks, cut) ==
    LET later == { r \in (cut + 1)..Len(blocks) : blocks[r].type = "tool_result" }
        last == IF later = {} THEN Len(blocks) ELSE SetMin(later) - 1
        hasId == cut > 0 /\ strip(blocks[cut].tool_use_id) # <<>>
        folded == IF cut > 0 /\ ~hasId THEN << ToolTextOf(blocks[cut]) >> ELSE <<>>
        run == folded \o TextsOf(SubSeq(blocks, cut + 1, last))
    IN  (IF hasId THEN << ToolMessage(strip(blocks[cut].tool_use_id), ToolTextOf(blocks[cut])) >>
         ELSE <<>>)
        \o (IF run # <<>> THEN << UserMessage(Join(run)) >> ELSE <<>>)

ExpectedOfUser(blocks) ==
    LET RECURSIVE From(_)
        From(cut) ==
            IF cut > Len(blocks) THEN <<>>
            ELSE (IF cut = 0 \/ blocks[cut].type = "tool_result"
                  THEN ExpectedFrom(blocks, cut) ELSE <<>>)
                 \o From(cut + 1)
    IN  From(0)

\* a request of one user message, translated once
OneUserMessage(p) ==
    /\ h[p].origin = "anthropic" /\ h[p].legs = 1
    /\ Len(h[p].first.messages) = 1 /\ h[p].first.messages[1].role = "user"
    /\ h[p].first.system = NoContent

\* C35: the OpenAI messages made of an Anthropic user message keep the order
\* of its blocks: each run of text blocks up to a tool_result is one user
\* message ahead of that tool_result's tool message, each tool_result with a
\* tool_use_id is exactly one tool message with that id, and a tool_result
\* without one is the first text of the user message that follows.
C35_UserBlockOrder ==
    \A p \in Procs :
        OneUserMessage(p) =>
            h[p].body.messages =
                ExpectedOfUser(normalize_anthropic_content_blocks(h[p].first.messages[1].content))

C35_Witness ==
    /\ OneUserMessage(1)
    /\ h[1].first.messages[1].content =
          BlockList(<< ReqText("a"), ToolResult(<<" ">>, Str("r"), FALSE), ReqText("b") >>)
    /\ h[1].body.messages = << UserMessage("a"), UserMessage("r\nb") >>

----------------------------------------------------------------------------
(* C33: control requests that fail validation *)

\* the reason do_POST gives for refusing a control request, "" if it has none
InvalidReason(req) ==
    CASE req.kind = "register" /\ strip(req.token) = <<>> -> "token is required"
      [] req.kind = "event" /\ (strip(req.token) = <<>> \/ strip(req.event_type) = <<>>) ->
            "token and event_type are required"
      [] req.kind = "event" /\ ~PayloadIsObject(req) -> "payload must be an object"
      [] OTHER -> ""

\* C33: a /sessions/register request without a token, and a /sessions/event
\* request without a token or event_type or with a payload that is no object,
\* is answered 400 with its reason, and no step of its handler changes the
\* session registry, a file, an event log or a suffix counter.
C33_InvalidControlChangesNothing ==
    [][\A p \in Procs :
          h'[p] # h[p] /\ InvalidReason(h'[p].req) # "" =>
             /\ sessions' = sessions /\ files' = files /\ evlog' = evlog
             /\ suffix_counter' = suffix_counter
             /\ h'[p].pc = "done" =>
                   h'[p].resp = ControlError(InvalidReason(h'[p].req))]_vars

C33_Witness ==
    /\ h[1].pc = "done" /\ h[1].req.kind = "event" /\ ~PayloadIsObject(h[1].req)
    /\ strip(h[1].req.token) = <<"s">> /\ h[1].req.event_type = <<"e">>
    /\ h[1].resp.status_code = 400
    /\ h[2].pc = "done" /\ h[2].req.kind = "event" /\ h[2].req.token = <<"s">>
    /\ Len(evlog[<<"s">>]) = 1

----------------------------------------------------------------------------
(* C34: the order of the steps of a routed chat request *)

\* C34: a chat request starts to write its query only after its
\* route_selected event is on disk and before its upstream call; it calls the
\* upstream only with its query written and no answer yet; it starts to write
\* its answer only after the upstream call returned a result; and a routed
\* request returns its response only after its answer is written.
C34_StepOrder ==
    [][\A p \in Procs :
          h'[p].req.kind \in {"anthropic", "openai"} =>
             /\ h'[p].queries # h[p].queries =>
                   /\ EvRouteSelected \in Range(h[p].events)
                   /\ h[p].posts = 0
             /\ h'[p].posts # h[p].posts =>
                   /\ h[p].queries # {}
                   /\ \A stamp \in h[p].queries :
                         files[<<DirOf(p), "query", stamp>>].complete
                   /\ h[p].answers = {}
             /\ h'[p].answers # h[p].answers =>
                   /\ h[p].posts > 0
                   /\ h[p].up # NoUp
             /\ (h'[p].pc = "done" /\ h[p].pc # "done" /\ h[p].route # NoRoute) =>
                   /\ h[p].answers # {}
                   /\ \A stamp \in h[p].answers :
                         files[<<DirOf(p), "answer", stamp>>].complete]_vars

C34_Witness ==
    \E p \in Procs :
        /\ h[p].req.kind = "openai" /\ h[p].pc = "done" /\ h[p].route # NoRoute
        /\ h[p].resp.status_code = 200
        /\ EvRouteSelected \in Range(h[p].events)
        /\ h[p].posts = 1
        /\ Cardinality(h[p].queries) = 1 /\ h[p].answers = h[p].queries

----------------------------------------------------------------------------
(* C36: what inject changes *)

\* C36: the injection leaves the reasoning cache as it is, keeps the number of
\* messages, and changes a message only if it is an assistant message with
\* tool calls and no reasoning_content: of such a message it changes only
\* reasoning_content, to the value cached for the first of its tool-call ids
\* that the copy of the token's cache holds, and to the value of __last__ only
\* when the cache holds none of its ids.
C36_InjectFrame ==
    [][\A p \in Procs :
          /\ (h[p].pc = "inject" /\ h'[p] # h[p]) => reasoning_by_token' = reasoning_by_token
          /\ (h[p].pc = "inject_apply" /\ h'[p] # h[p]) =>
                /\ reasoning_by_token' = reasoning_by_token
                /\ Len(h'[p].messages) = Len(MessagesOf(h[p].req))
                /\ \A i \in 1..Len(MessagesOf(h[p].req)) :
                      LET before == MessagesOf(h[p].req)[i]
                          after == h'[p].messages[i]
                          cache == h[p].token_cache
                          ids == call_ids(before)
                          cached == { k \in 1..Len(ids) : ids[k] \in Range(cache.keys) }
                      IN  IF /\ before.role = "assistant"
                             /\ before.tool_calls # <<>>
                             /\ ~before.reasoning_content.present
                          THEN /\ [after EXCEPT !.reasoning_content = NoReasoning] = before
                               /\ after.reasoning_content =
                                     IF cached # {}
                                     THEN Reasoning(cache.values[ids[SetMin(cached)]])
                                     ELSE IF LastKey \in Range(cache.keys)
                                     THEN Reasoning(cache.values[LastKey])
                                     ELSE NoReasoning
                          ELSE after = before]_vars

\* the cache holds "c" but not "d": the user message that names "c" and the
\* assistant message without tool calls are posted as they came, the
\* assistant message that names "d" with the reasoning of __last__
C36_Witness ==
    /\ h[1].pc = "post"
    /\ Len(h[1].messages) = 3
    /\ IdC \in Range(h[1].token_cache.keys) /\ IdD \notin Range(h[1].token_cache.keys)
    /\ h[1].messages[1] = OpenAIMessage("user", NoReasoning, <<IdC>>)
    /\ h[1].messages[2] = OpenAIMessage("assistant", NoReasoning, <<>>)
    /\ h[1].messages[3].reasoning_content = Reasoning(h[1].token_cache.values[LastKey])

----------------------------------------------------------------------------
(* C37: the session directories of different tokens *)

\* handler p has written an event, a query or an answer file for its token
HasWritten(p) == h[p].events # <<>> \/ h[p].queries # {} \/ h[p].answers # {}

\* C37: two requests with different session tokens never write into the same
\* session directory.
C37_TokensNeverMix ==
    \A p, q \in Procs :
        (/\ HasWritten(p) /\ HasWritten(q)
         /\ SessionToken(h[p].req) # SessionToken(h[q].req))
        => DirOf(p) # DirOf(q)

----------------------------------------------------------------------------
(* C38: the payload of a ProxyResponse and its mode *)

\* C38: the payload of every ProxyResponse a chat request is answered with
\* is a string exactly when its mode is sse_raw and a JSON object when its
\* mode is json or sse_synth, the payload answered on the OpenAI endpoint is
\* a JSON object, and do_POST never sends the 500 invalid_proxy_response.
C38_PayloadAgreesWithMode ==
    \A p \in Procs :
        (IsChat(p) /\ h[p].pc \in {"respond", "done"}) =>
            LET resp == IF h[p].pc = "respond" THEN Head(h[p].todo).resp ELSE h[p].resp
            IN  /\ resp.mode \in {"json", "sse_synth", "sse_raw"}
                /\ resp.payload = "str" <=> resp.mode = "sse_raw"
                /\ resp.mode \in {"json", "sse_synth"} => resp.payload = "dict"
                /\ h[p].req.kind = "openai" => resp.payload = "dict"
                /\ h[p].sent # "invalid_proxy_response"

\* a streaming Anthropic request on the Anthropic route was answered with the
\* upstream's event stream as a string, and the other handler with a JSON object
C38_Witness ==
    \E p, q \in Procs :
        /\ h[p].pc = "done" /\ h[p].req.kind = "anthropic" /\ h[p].req.stream
        /\ h[p].resp.mode = "sse_raw" /\ h[p].resp.payload = "str" /\ h[p].sent = "sse_raw"
        /\ h[q].pc = "done" /\ IsChat(q) /\ h[q].resp.status_code = 200
        /\ h[q].resp.mode = "json" /\ h[q].resp.payload = "dict" /\ h[q].sent = "json"

----------------------------------------------------------------------------
(* The agent orchestrator: core/orchestrator.py and core/state_manager.py.
   One event loop runs the coroutines; h holds the orchestrator, its
   StateManager and the tasks asyncio.gather made of a batch. *)

MaxParallel == 3
MaxExecutions == 2

\* core.types.ToolCall of the tool execute_command, and core.types.ToolResult
AgentToolCall(command, call_id) ==
    [name |-> "execute_command", command |-> command, call_id |-> call_id]
AgentToolResult(status, call_id) == [status |-> status, call_id |-> call_id]

\* AgentState as AgentOrchestrator.__init__ leaves it; uuids counts the ids
\* uuid.uuid4 has handed out
FreshAgentState ==
    [tool_call_history |-> <<>>, result_history |-> <<>>, current_step |-> 0, uuids |-> 0]

\* StateManager.record_tool_call: a call without id gets a fresh one, the
\* call is appended
record_tool_call(state, tool_call) ==
    IF tool_call.call_id = NoneVal
    THEN [state EXCEPT !.tool_call_history =
                           Append(@, [tool_call EXCEPT !.call_id = "uuid" \o ToString(state.uuids)]),
                       !.uuids = @ + 1]
    ELSE [state EXCEPT !.tool_call_history = Append(@, tool_call)]

\* StateManager.record_result
record_result(state, result) == [state EXCEPT !.result_history = Append(@, result)]

\* StateManager.increment_step
increment_step(state) == [state EXCEPT !.current_step = @ + 1]

\* StateManager.get_history
get_history(state) == <<state.tool_call_history, state.result_history>>

\* ToolAdapter._execute_command answers an empty command at once, without
\* reaching the sandbox
AnswersAtOnce(tool_call) == tool_call.command = ""

\* the ToolResult of a command the sandbox ran with this exit code
CommandResult(tool_call, exit_code) ==
    AgentToolResult(IF exit_code = 0 THEN "success" ELSE "error", tool_call.call_id)

\* the batches execute_tools is called with: the call of the i-th position of
\* the n-th batch carries the id the LLM gave it, or none
LLMCallId(n, i) == "call" \o ToString(n * MaxParallel + i)
Batches(n) ==
    UNION { { [i \in 1..len |-> AgentToolCall(cmd[i], IF ided[i] THEN LLMCallId(n, i) ELSE NoneVal)] :
                cmd \in [1..len -> {"", "ls"}], ided \in [1..len -> BOOLEAN] } :
            len \in 1..MaxParallel }

InitOrchestrator ==
    /\ routes = RouteTable
    /\ now = 0
    /\ sessions = EmptyFn
    /\ files = EmptyFn
    /\ suffix_counter = EmptyFn
    /\ storeLock = NoProc
    /\ runtimeLock = NoProc
    /\ reasoning_by_token = EmptyFn
    /\ server = "serving"
    /\ evlog = [d \in Dirs |-> <<>>]
    /\ h = [pc |-> "idle", tool_adapter |-> NoneVal, state |-> FreshAgentState,
            tool_calls |-> <<>>, tasks |-> <<>>, results |-> <<>>, executions |-> 0]

OrchestratorFrame ==
    UNCHANGED <<runtimeLock, reasoning_by_token, server, routes, now, sessions, files,
                suffix_counter, storeLock, evlog>>

\* AgentOrchestrator.initialize, up to the tool adapter it creates
OrchestratorInitialize ==
    /\ h.pc = "idle" /\ h.tool_adapter = NoneVal
    /\ h' = [h EXCEPT !.tool_adapter = "adapter"]
    /\ OrchestratorFrame

\* execute_tools: one task per tool call, handed to asyncio.gather
ExecuteTools ==
    /\ h.pc \in {"idle", "returned"} /\ h.executions < MaxExecutions
    /\ \E tool_calls \in Batches(h.executions) :
          h' = [h EXCEPT !.pc = "gather", !.tool_calls = tool_calls,
                         !.tasks = [i \in 1..Len(tool_calls) |->
                                       [pc |-> "created", tool_call |-> tool_calls[i],
                                        result |-> NoneVal]],
                         !.results = <<>>, !.executions = @ + 1]
    /\ OrchestratorFrame

\* execute_tool up to the first suspension: the tasks take their first step
\* in the order gather created them
ExecuteToolStart(i) ==
    /\ h.pc = "gather" /\ i \in DOMAIN h.tasks /\ h.tasks[i].pc = "created"
    /\ \A j \in 1..(i - 1) : h.tasks[j].pc # "created"
    /\ IF h.tool_adapter = NoneVal
       THEN h' = [h EXCEPT !.tasks[i].pc = "done",
                           !.tasks[i].result = AgentToolResult("error", NoneVal)]
       ELSE LET recorded == record_tool_call(h.state, h.tasks[i].tool_call)
                tool_call == recorded.tool_call_history[Len(recorded.tool_call_history)]
                result == AgentToolResult("error", tool_call.call_id)
            IN  IF AnswersAtOnce(tool_call)
                THEN h' = [h EXCEPT !.state = increment_step(record_result(recorded, result)),
                                    !.tasks[i].tool_call = tool_call,
                                    !.tasks[i].pc = "done", !.tasks[i].result = result]
                ELSE h' = [h EXCEPT !.state = recorded, !.tasks[i].tool_call = tool_call,
                                    !.tasks[i].pc = "awaiting"]
    /\ OrchestratorFrame

\* execute_tool after tool_adapter.execute returned: the sandbox answers the
\* awaiting commands in any order, once every task has taken its first step
ExecuteToolResume(i) ==
    /\ h.pc = "gather" /\ i \in DOMAIN h.tasks /\ h.tasks[i].pc = "awaiting"
    /\ \A j \in DOMAIN h.tasks : h.tasks[j].pc # "created"
    /\ \E exit_code \in {0, 1} :
          LET result == CommandResult(h.tasks[i].tool_call, exit_code)
          IN  h' = [h EXCEPT !.state = increment_step(record_result(h.state, result)),
                             !.tasks[i].pc = "done", !.tasks[i].result = result]
    /\ OrchestratorFrame

\* asyncio.gather returns the results in the order of the tool calls
GatherReturns ==
    /\ h.pc = "gather" /\ \A i \in DOMAIN h.tasks : h.tasks[i].pc = "done"
    /\ h' = [h EXCEPT !.pc = "returned",
                      !.results = [i \in DOMAIN h.tasks |-> h.tasks[i].result]]
    /\ OrchestratorFrame

NextOrchestrator ==
    \/ OrchestratorInitialize
    \/ ExecuteTools
    \/ \E i \in 1..MaxParallel : ExecuteToolStart(i)
    \/ \E i \in 1..MaxParallel : ExecuteToolResume(i)
    \/ GatherReturns

SpecOrchestrator == InitOrchestrator /\ [][NextOrchestrator]_vars

----------------------------------------------------------------------------
(* C39: the histories of the state manager after a parallel batch *)

\* C39: whenever execute_tools has returned, tool_call_history and
\* result_history have the same length, that length is the step counter, and
\* the result at every position carries the call_id of the call at that
\* position.
C39_HistoriesAligned ==
    h.pc = "returned" =>
        LET calls == get_history(h.state)[1]
            results == get_history(h.state)[2]
        IN  /\ Len(calls) = Len(results)
            /\ Len(calls) = h.state.current_step
            /\ \A i \in 1..Len(results) : results[i].call_id = calls[i].call_id

====
